---- MODULE Spec2Model ----
(***************************************************************************)
(* Model of the fundbot core: the resolver's TTL cache, the swap manager,  *)
(* the providers' Quote, Execute and CheckStatus steps, the tracker's      *)
(* topup and gas refill polling, the asset notation, amount parsing, and   *)
(* the resolver's matching steps and catalog matchers.                     *)
(***************************************************************************)
EXTENDS Integers, Sequences, FiniteSets, TLC

VARIABLES
    \* ---- resolver.Cache ----
    entries,      \* Cache.entries: key -> cacheEntry (ok = key present in the map)
    now,          \* wall clock read by time.Since / time.Now
    readers,      \* callers holding c.mu.RLock
    writer,       \* caller holding c.mu.Lock, or NoCaller
    cpc,          \* position of each caller inside GetOrFetch
    ckey,         \* key argument of each caller's current call
    cres,         \* (value, error) returned by each caller's last call
    cobs,         \* what the caller's last table check saw, and when
    chit,         \* which check of the current call was a hit: none / first / double
    cfetched,     \* whether the current call invoked its fetch function
    tblBefore,    \* the entry table when the running fetch was invoked
    \* ---- swaps.Manager ----
    registry,     \* Manager.providers: the providers' names in registration order
    mpc,          \* idle / quoting (inside BestQuote's provider loop) / returned
    mhint,        \* the RoutingHint of the running BestQuote
    mfiltered,    \* filterProviders' result: registry positions, in order
    midx,         \* position in mfiltered of the next provider to query
    mbest,        \* BestQuote's local variable best
    mcalls,       \* provider methods called by the running / last manager operation
    mseen,        \* all quotes the providers returned to the running / last BestQuote
    mret,         \* what the last manager operation returned
    mlookups,     \* balances.USDCBalance calls the manager itself made in that operation
    \* ---- Provider.Quote (thorchain, nearintents, simpleswap) ----
    pq,           \* the last Quote call of a provider: its inputs and what it returned
    \* ---- tracker.Tracker and the topups table ----
    topups,       \* topups.status by row id ("none": row not inserted yet)
    tpc,          \* idle (between polls) / polling, updating, notifying (inside pollTopups' loop) / stopped
    tpending,     \* the rows ListPendingTopups returned that the loop has not finished: its head is the iteration's row
    tpolls,       \* number of polls started
    tasks,        \* per topup: how often its provider was asked for the status
    tnotes,       \* per topup: how many completed/failed notifications were sent
    tlast,        \* the last iteration of pollTopups' loop: row, CheckStatus answer, update error
    \* ---- Provider.CheckStatus (all providers) ----
    ps,           \* the last CheckStatus call of a provider: its inputs and what it returned
    \* ---- swaps.ParseAsset / Asset.String ----
    pa,           \* the last parse or render-and-parse call: its input and its results
    \* ---- coingeckoClient.bestMatch ----
    bm,           \* the last bestMatch call: the coins, the symbol and the coin picked
    \* ---- resolver.Resolver ----
    rs,           \* the last Resolve call: its inputs, the pool attempts made, its result
    \* ---- poolMatcher.fetchPools / matchPool ----
    pm,           \* the last matchPool call: the catalog downloaded, the query, its result
    \* ---- nearMatcher.matchToken ----
    nt,           \* the last matchToken call: the token list, the query, its result
    \* ---- Provider.Execute (thorchain, simpleswap, houdini, nearintents) ----
    ex,           \* the running / last Execute call: position, calls made, transaction receipts, result
    \* ---- Manager.noQuotesError ----
    nq,           \* the last noQuotesError call: the clients, contracts and balances, the error built
    \* ---- parseToBigInt ----
    pb,           \* the last parseToBigInt call: the string and the integer returned
    \* ---- simpleswapMatcher ----
    sm,           \* the two indices, the RWMutex, and the position of every refresh and match call
    \* ---- tracker.Tracker and the gas_refills table ----
    gr,           \* the gas refill rows, the position of pollGasRefills, and what was asked and written per row
    \* ---- cowswap.Client.RefillGasIfNeeded ----
    cw,           \* the current call: phase, inputs, calls made, return
    \* ---- bot.Bot.walletIndex ----
    wa,           \* mode, the users, chats and address_assignments tables, the position of the running walletIndex call, indices handed out
    \* ---- bot.Bot.Run ----
    au,           \* the configuration and the last update with what Run did with it
    \* ---- bot.Bot.handleQuote and bot.Bot.handleTopup ----
    ht,           \* the quotes and topups tables as /quote and /topup write them, the handler's position, the reply it is about to send, and the last command
    \* ---- tracker.Tracker.Run with Provider.CheckStatus ----
    lv,           \* topups with provider and external id, the running poll, what CheckStatus last returned
    \* ---- server.Server sessions ----
    sv            \* the two session maps, the tokens issued so far and the last request

cacheVars == <<entries, now, readers, writer, cpc, ckey, cres, cobs, chit, cfetched, tblBefore>>

mgrVars == <<registry, mpc, mhint, mfiltered, midx, mbest, mcalls, mseen, mret, mlookups>>

vars == <<entries, now, readers, writer, cpc, ckey, cres, cobs, chit, cfetched, tblBefore,
          registry, mpc, mhint, mfiltered, midx, mbest, mcalls, mseen, mret, mlookups, pq,
          topups, tpc, tpending, tpolls, tasks, tnotes, tlast, ps, pa, bm, rs, pm, nt, ex, nq, pb, sm, gr, cw, wa, au, ht, lv, sv>>

trackerVars == <<topups, tpc, tpending, tpolls, tasks, tnotes, tlast>>

nonCacheVars == <<mgrVars, pq, trackerVars, ps, pa, bm, rs, pm, nt, ex, nq, pb, sm, gr, cw, wa, au, ht, lv, sv>>
nonMgrVars == <<cacheVars, pq, trackerVars, ps, pa, bm, rs, pm, nt, ex, nq, pb, sm, gr, cw, wa, au, ht, lv, sv>>
nonQuoteVars == <<cacheVars, mgrVars, trackerVars, ps, pa, bm, rs, pm, nt, ex, nq, pb, sm, gr, cw, wa, au, ht, lv, sv>>
nonTrackerVars == <<cacheVars, mgrVars, pq, ps, pa, bm, rs, pm, nt, ex, nq, pb, sm, gr, cw, wa, au, ht, lv, sv>>
nonStatusVars == <<cacheVars, mgrVars, pq, trackerVars, pa, bm, rs, pm, nt, ex, nq, pb, sm, gr, cw, wa, au, ht, lv, sv>>
nonAssetVars == <<cacheVars, mgrVars, pq, trackerVars, ps, bm, rs, pm, nt, ex, nq, pb, sm, gr, cw, wa, au, ht, lv, sv>>
nonMatchVars == <<cacheVars, mgrVars, pq, trackerVars, ps, pa, rs, pm, nt, ex, nq, pb, sm, gr, cw, wa, au, ht, lv, sv>>
nonResolveVars == <<cacheVars, mgrVars, pq, trackerVars, ps, pa, bm, pm, nt, ex, nq, pb, sm, gr, cw, wa, au, ht, lv, sv>>
nonPoolVars == <<cacheVars, mgrVars, pq, trackerVars, ps, pa, bm, rs, nt, ex, nq, pb, sm, gr, cw, wa, au, ht, lv, sv>>
nonTokenVars == <<cacheVars, mgrVars, pq, trackerVars, ps, pa, bm, rs, pm, ex, nq, pb, sm, gr, cw, wa, au, ht, lv, sv>>
nonExecVars == <<cacheVars, mgrVars, pq, trackerVars, ps, pa, bm, rs, pm, nt, nq, pb, sm, gr, cw, wa, au, ht, lv, sv>>
nonNoQuotesVars == <<cacheVars, mgrVars, pq, trackerVars, ps, pa, bm, rs, pm, nt, ex, pb, sm, gr, cw, wa, au, ht, lv, sv>>
nonParseVars == <<cacheVars, mgrVars, pq, trackerVars, ps, pa, bm, rs, pm, nt, ex, nq, sm, gr, cw, wa, au, ht, lv, sv>>
nonMatcherVars == <<cacheVars, mgrVars, pq, trackerVars, ps, pa, bm, rs, pm, nt, ex, nq, pb, gr, cw, wa, au, ht, lv, sv>>
nonRefillVars == <<cacheVars, mgrVars, pq, trackerVars, ps, pa, bm, rs, pm, nt, ex, nq, pb, sm, cw, wa, au, ht, lv, sv>>
nonCowVars == <<cacheVars, mgrVars, pq, trackerVars, ps, pa, bm, rs, pm, nt, ex, nq, pb, sm, gr, wa, au, ht, lv, sv>>
nonWalletVars == <<cacheVars, mgrVars, pq, trackerVars, ps, pa, bm, rs, pm, nt, ex, nq, pb, sm, gr, cw, au, ht, lv, sv>>
nonAuthVars == <<cacheVars, mgrVars, pq, trackerVars, ps, pa, bm, rs, pm, nt, ex, nq, pb, sm, gr, cw, wa, ht, lv, sv>>
nonTopupVars == <<cacheVars, mgrVars, pq, trackerVars, ps, pa, bm, rs, pm, nt, ex, nq, pb, sm, gr, cw, wa, au, lv, sv>>
nonTopupWalletVars == <<cacheVars, mgrVars, pq, trackerVars, ps, pa, bm, rs, pm, nt, ex, nq, pb, sm, gr, cw, au, lv, sv>>
nonLiveVars == <<cacheVars, mgrVars, pq, trackerVars, ps, pa, bm, rs, pm, nt, ex, nq, pb, sm, gr, cw, wa, au, ht, sv>>
nonServerVars == <<cacheVars, mgrVars, pq, trackerVars, ps, pa, bm, rs, pm, nt, ex, nq, pb, sm, gr, cw, wa, au, ht, lv>>

(***************************************************************************)
(* resolver.Cache                                                          *)
(***************************************************************************)
Callers == {"g1", "g2"}
Keys == {"pools", "tokens"}
FetchValues == {"v1", "v2"}
NoCaller == "nobody"
ZeroValue == "zero"

\* Cache.ttl, fixed at NewCache
TTL == 2
\* the clock stops advancing here
MaxTime == 4

NoEntry == [ok |-> FALSE, value |-> ZeroValue, fetchedAt |-> 0]
Entry == [ok : {TRUE}, value : FetchValues \cup {ZeroValue}, fetchedAt : 0..MaxTime]

NoResult == [value |-> ZeroValue, err |-> "unset"]
NoObs == [at |-> 0, entry |-> NoEntry]

\* an entry exactly ttl old still counts as live
LiveInclusive(e, t) == e.ok /\ (t - e.fetchedAt <= TTL)

\* e, ok := c.entries[key]; ok && time.Since(e.fetchedAt) < c.ttl
Live(e, t) == e.ok /\ (t - e.fetchedAt < TTL)

CacheInit ==
    /\ entries = [k \in Keys |-> NoEntry]
    /\ now = 0
    /\ readers = {}
    /\ writer = NoCaller
    /\ cpc = [c \in Callers |-> "idle"]
    /\ ckey = [c \in Callers |-> CHOOSE k \in Keys : TRUE]
    /\ cres = [c \in Callers |-> NoResult]
    /\ cobs = [c \in Callers |-> NoObs]
    /\ chit = [c \in Callers |-> "none"]
    /\ cfetched = [c \in Callers |-> FALSE]
    /\ tblBefore = entries

\* no GetOrFetch call is running and the table is empty
CacheQuiet == CacheInit

\* a caller enters GetOrFetch(key, fetch)
Call(c, k) ==
    /\ cpc[c] \in {"idle", "done"}
    /\ cpc' = [cpc EXCEPT ![c] = "enter"]
    /\ ckey' = [ckey EXCEPT ![c] = k]
    /\ cres' = [cres EXCEPT ![c] = NoResult]
    /\ cobs' = [cobs EXCEPT ![c] = NoObs]
    /\ chit' = [chit EXCEPT ![c] = "none"]
    /\ cfetched' = [cfetched EXCEPT ![c] = FALSE]
    /\ UNCHANGED <<entries, now, readers, writer, tblBefore>>
    /\ UNCHANGED nonCacheVars

\* c.mu.RLock()
RLock(c) ==
    /\ cpc[c] = "enter"
    /\ writer = NoCaller
    /\ readers' = readers \cup {c}
    /\ cpc' = [cpc EXCEPT ![c] = "rlocked"]
    /\ UNCHANGED <<entries, now, writer, ckey, cres, cobs, chit, cfetched, tblBefore>>
    /\ UNCHANGED nonCacheVars

\* first check under the read lock, then c.mu.RUnlock()
FirstCheck(c) ==
    /\ cpc[c] = "rlocked"
    /\ readers' = readers \ {c}
    /\ cobs' = [cobs EXCEPT ![c] = [at |-> now, entry |-> entries[ckey[c]]]]
    /\ IF Live(entries[ckey[c]], now)
         THEN /\ cpc' = [cpc EXCEPT ![c] = "done"]
              /\ cres' = [cres EXCEPT ![c] = [value |-> entries[ckey[c]].value, err |-> "nil"]]
              /\ chit' = [chit EXCEPT ![c] = "first"]
         ELSE /\ cpc' = [cpc EXCEPT ![c] = "wantlock"]
              /\ UNCHANGED <<cres, chit>>
    /\ UNCHANGED <<entries, now, writer, ckey, cfetched, tblBefore>>
    /\ UNCHANGED nonCacheVars

\* c.mu.Lock(); defer c.mu.Unlock()
Lock(c) ==
    /\ cpc[c] = "wantlock"
    /\ writer = NoCaller
    /\ readers = {}
    /\ writer' = c
    /\ cpc' = [cpc EXCEPT ![c] = "locked"]
    /\ UNCHANGED <<entries, now, readers, ckey, cres, cobs, chit, cfetched, tblBefore>>
    /\ UNCHANGED nonCacheVars

\* the write lock is released before fetch() is invoked
DoubleCheckUnlocked(c) ==
    /\ cpc[c] = "locked"
    /\ cobs' = [cobs EXCEPT ![c] = [at |-> now, entry |-> entries[ckey[c]]]]
    /\ writer' = NoCaller
    /\ IF Live(entries[ckey[c]], now)
         THEN /\ cpc' = [cpc EXCEPT ![c] = "done"]
              /\ cres' = [cres EXCEPT ![c] = [value |-> entries[ckey[c]].value, err |-> "nil"]]
              /\ chit' = [chit EXCEPT ![c] = "double"]
              /\ UNCHANGED <<cfetched, tblBefore>>
         ELSE /\ cpc' = [cpc EXCEPT ![c] = "fetching"]
              /\ cfetched' = [cfetched EXCEPT ![c] = TRUE]
              /\ tblBefore' = entries
              /\ UNCHANGED <<cres, chit>>
    /\ UNCHANGED <<entries, now, readers, ckey>>
    /\ UNCHANGED nonCacheVars

\* the table is not looked at again once the write lock is held
DoubleCheckSkipped(c) ==
    /\ cpc[c] = "locked"
    /\ cobs' = [cobs EXCEPT ![c] = [at |-> now, entry |-> entries[ckey[c]]]]
    /\ cpc' = [cpc EXCEPT ![c] = "fetching"]
    /\ cfetched' = [cfetched EXCEPT ![c] = TRUE]
    /\ tblBefore' = entries
    /\ UNCHANGED <<entries, now, readers, writer, ckey, cres, chit>>
    /\ UNCHANGED nonCacheVars

\* double-check after acquiring the write lock; on a miss fetch() is invoked
DoubleCheck(c) ==
    /\ cpc[c] = "locked"
    /\ cobs' = [cobs EXCEPT ![c] = [at |-> now, entry |-> entries[ckey[c]]]]
    /\ IF Live(entries[ckey[c]], now)
         THEN /\ cpc' = [cpc EXCEPT ![c] = "done"]
              /\ cres' = [cres EXCEPT ![c] = [value |-> entries[ckey[c]].value, err |-> "nil"]]
              /\ chit' = [chit EXCEPT ![c] = "double"]
              /\ writer' = NoCaller
              /\ UNCHANGED <<cfetched, tblBefore>>
         ELSE /\ cpc' = [cpc EXCEPT ![c] = "fetching"]
              /\ cfetched' = [cfetched EXCEPT ![c] = TRUE]
              /\ tblBefore' = entries
              /\ UNCHANGED <<cres, chit, writer>>
    /\ UNCHANGED <<entries, now, readers, ckey>>
    /\ UNCHANGED nonCacheVars

\* fetch() returned (val, nil): store the entry stamped time.Now(), unlock, return
FetchOk(c, v) ==
    /\ cpc[c] = "fetching"
    /\ entries' = [entries EXCEPT ![ckey[c]] = [ok |-> TRUE, value |-> v, fetchedAt |-> now]]
    /\ cres' = [cres EXCEPT ![c] = [value |-> v, err |-> "nil"]]
    /\ cpc' = [cpc EXCEPT ![c] = "done"]
    /\ writer' = IF writer = c THEN NoCaller ELSE writer
    /\ UNCHANGED <<now, readers, ckey, cobs, chit, cfetched, tblBefore>>
    /\ UNCHANGED nonCacheVars

\* a failed fetch stores the zero value it came back with
FetchErrStoresZero(c) ==
    /\ cpc[c] = "fetching"
    /\ entries' = [entries EXCEPT ![ckey[c]] = [ok |-> TRUE, value |-> ZeroValue, fetchedAt |-> now]]
    /\ cres' = [cres EXCEPT ![c] = [value |-> ZeroValue, err |-> "fetch"]]
    /\ cpc' = [cpc EXCEPT ![c] = "done"]
    /\ writer' = IF writer = c THEN NoCaller ELSE writer
    /\ UNCHANGED <<now, readers, ckey, cobs, chit, cfetched, tblBefore>>
    /\ UNCHANGED nonCacheVars

\* fetch() returned an error (also a cancelled fetch): return (zero, err), unlock
FetchErr(c) ==
    /\ cpc[c] = "fetching"
    /\ cres' = [cres EXCEPT ![c] = [value |-> ZeroValue, err |-> "fetch"]]
    /\ cpc' = [cpc EXCEPT ![c] = "done"]
    /\ writer' = IF writer = c THEN NoCaller ELSE writer
    /\ UNCHANGED <<entries, now, readers, ckey, cobs, chit, cfetched, tblBefore>>
    /\ UNCHANGED nonCacheVars

\* time passes
Tick ==
    /\ now < MaxTime
    /\ now' = now + 1
    /\ UNCHANGED <<entries, readers, writer, cpc, ckey, cres, cobs, chit, cfetched, tblBefore>>
    /\ UNCHANGED nonCacheVars

(***************************************************************************)
(* swaps.Manager                                                           *)
(***************************************************************************)
ProviderNames == {"thorchain", "nearintents", "houdini", "houdini-xmr"}
UnknownName == "unknown"
\* longest provider list handed to NewManager
MaxProviders == 3
\* most quotes one provider returns from a single Quote call: one for each
\* of the two source chains
MaxQuotes == 2
\* ExpectedOutputRaw values the providers report
RawValues == {100, 180, 250}

\* Provider.Category()
Category(name) ==
    CASE name = "thorchain" -> "dex"
      [] name = "nearintents" -> "dex"
      [] name = "houdini" -> "private"
      [] name = "houdini-xmr" -> "xmr-private"
      [] OTHER -> ""

Categories == {"dex", "private", "xmr-private"}

\* RoutingHint values a caller passes
Hints ==
    {[Type |-> "", Value |-> ""]}
    \cup [Type : {"provider"}, Value : ProviderNames \cup {UnknownName}]
    \cup [Type : {"category"}, Value : Categories \cup {UnknownName}]
    \cup {[Type |-> "chain", Value |-> "dex"]}

NoHint == [Type |-> "", Value |-> ""]
NoQuote == [Provider |-> "", ExpectedOutputRaw |-> 0, from |-> 0, pos |-> 0]
NoReturn == [op |-> "none", err |-> "unset", quote |-> NoQuote, name |-> "", status |-> ""]

\* registries NewManager can be given
SeqsUpTo(S, n) == UNION {[1..k -> S] : k \in 1..n}
Registries ==
    {r \in SeqsUpTo(ProviderNames, MaxProviders) :
        \A i \in 1..Len(r), j \in 1..Len(r) : r[i] = r[j] => i = j}

\* what provider number i of the registry answers to one Quote call: an
\* error, or its quotes (Provider set to its own name); from/pos identify
\* the quote object (&quotes[pos] of that call)
QuoteLists ==
    UNION {[1..k -> RawValues] : k \in 0..MaxQuotes}
MkQuotes(i, raws) ==
    [k \in 1..Len(raws) |->
        [Provider |-> registry[i], ExpectedOutputRaw |-> raws[k], from |-> i, pos |-> k]]

MgrQuiet ==
    /\ registry = <<>>
    /\ mpc = "idle"
    /\ mhint = NoHint
    /\ mfiltered = <<>>
    /\ midx = 1
    /\ mbest = NoQuote
    /\ mcalls = <<>>
    /\ mseen = {}
    /\ mret = NoReturn
    /\ mlookups = 0

\* NewManager(providers...)
MgrInit ==
    /\ registry \in Registries
    /\ mpc = "idle"
    /\ mhint = NoHint
    /\ mfiltered = <<>>
    /\ midx = 1
    /\ mbest = NoQuote
    /\ mcalls = <<>>
    /\ mseen = {}
    /\ mret = NoReturn
    /\ mlookups = 0

Positions == [i \in 1..Len(registry) |-> i]

\* every provider passes the switch
HintMatchesAll(i, hint) == TRUE

\* the switch inside filterProviders' loop
HintMatches(i, hint) ==
    CASE hint.Type = "provider" -> registry[i] = hint.Value
      [] hint.Type = "category" -> Category(registry[i]) = hint.Value
      [] OTHER -> FALSE

\* Manager.filterProviders: positions of the providers kept
filterProviders(hint) ==
    IF hint.Type = "" THEN Positions
    ELSE SelectSeq(Positions, LAMBDA i : HintMatches(i, hint))

\* the comparison is reversed
BetterReversed(q, best) ==
    best = NoQuote \/ q.ExpectedOutputRaw < best.ExpectedOutputRaw

\* best == nil || q.ExpectedOutputRaw.Cmp(best.ExpectedOutputRaw) > 0
Better(q, best) ==
    best = NoQuote \/ q.ExpectedOutputRaw > best.ExpectedOutputRaw

\* for i := range quotes { ... best = q }
RECURSIVE FoldQuotes(_, _)
FoldQuotes(best, quotes) ==
    IF quotes = <<>> THEN best
    ELSE FoldQuotes(IF Better(Head(quotes), best) THEN Head(quotes) ELSE best, Tail(quotes))

\* an empty filter falls back to every registered provider
BestQuoteStartFallback(hint) ==
    /\ mpc = "idle"
    /\ mhint' = hint
    /\ mfiltered' = IF filterProviders(hint) = <<>> THEN Positions ELSE filterProviders(hint)
    /\ midx' = 1
    /\ mbest' = NoQuote
    /\ mcalls' = <<>>
    /\ mseen' = {}
    /\ mlookups' = 0
    /\ IF Positions = <<>>
         THEN /\ mpc' = "returned"
              /\ mret' = [NoReturn EXCEPT !.op = "BestQuote", !.err = "hint"]
         ELSE /\ mpc' = "quoting"
              /\ mret' = NoReturn
    /\ UNCHANGED registry
    /\ UNCHANGED nonMgrVars

\* BestQuote up to the provider loop: filterProviders, error on an empty filter
BestQuoteStart(hint) ==
    /\ mpc = "idle"
    /\ mhint' = hint
    /\ mfiltered' = filterProviders(hint)
    /\ midx' = 1
    /\ mbest' = NoQuote
    /\ mcalls' = <<>>
    /\ mseen' = {}
    /\ mlookups' = 0
    /\ IF hint.Type # "" /\ filterProviders(hint) = <<>>
         THEN /\ mpc' = "returned"
              /\ mret' = [NoReturn EXCEPT !.op = "BestQuote", !.err = "hint"]
         ELSE /\ mpc' = "quoting"
              /\ mret' = NoReturn
    /\ UNCHANGED registry
    /\ UNCHANGED nonMgrVars

\* chains of Manager.rpcClients that have a USDC contract: noQuotesError
\* reads the sender's balance on each of them
MgrRpcChains == {"avalanche", "base"}

\* balances.USDCBalance calls made after the loop: none unless best == nil
noQuotesError(best) == IF best = NoQuote THEN Cardinality(MgrRpcChains) ELSE 0

\* after the loop: best == nil -> noQuotesError, else return best
BestQuoteResult(best) ==
    IF best = NoQuote
      THEN [NoReturn EXCEPT !.op = "BestQuote", !.err = "noquotes"]
      ELSE [NoReturn EXCEPT !.op = "BestQuote", !.err = "nil", !.quote = best]

\* a provider error ends the loop and fails the call
QuoteErrAborts ==
    /\ mpc = "quoting"
    /\ midx <= Len(mfiltered)
    /\ mcalls' = Append(mcalls, [method |-> "Quote", idx |-> mfiltered[midx], err |-> TRUE])
    /\ midx' = midx + 1
    /\ mpc' = "returned"
    /\ mret' = [NoReturn EXCEPT !.op = "BestQuote", !.err = "quote"]
    /\ UNCHANGED <<registry, mhint, mfiltered, mbest, mseen, mlookups>>
    /\ UNCHANGED nonMgrVars

\* one loop iteration whose p.Quote returned an error: log, continue
QuoteErr ==
    /\ mpc = "quoting"
    /\ midx <= Len(mfiltered)
    /\ mcalls' = Append(mcalls, [method |-> "Quote", idx |-> mfiltered[midx], err |-> TRUE])
    /\ midx' = midx + 1
    /\ IF midx = Len(mfiltered)
         THEN /\ mpc' = "returned"
              /\ mret' = BestQuoteResult(mbest)
              /\ mlookups' = noQuotesError(mbest)
         ELSE UNCHANGED <<mpc, mret, mlookups>>
    /\ UNCHANGED <<registry, mhint, mfiltered, mbest, mseen>>
    /\ UNCHANGED nonMgrVars

\* one loop iteration whose p.Quote returned quotes: fold them into best
QuoteOk(raws) ==
    /\ mpc = "quoting"
    /\ midx <= Len(mfiltered)
    /\ LET quotes == MkQuotes(mfiltered[midx], raws)
           best == FoldQuotes(mbest, quotes)
       IN /\ mcalls' = Append(mcalls, [method |-> "Quote", idx |-> mfiltered[midx], err |-> FALSE])
          /\ mseen' = mseen \cup {quotes[k] : k \in 1..Len(quotes)}
          /\ mbest' = best
          /\ midx' = midx + 1
          /\ IF midx = Len(mfiltered)
               THEN /\ mpc' = "returned"
                    /\ mret' = BestQuoteResult(best)
                    /\ mlookups' = noQuotesError(best)
               ELSE UNCHANGED <<mpc, mret, mlookups>>
    /\ UNCHANGED <<registry, mhint, mfiltered>>
    /\ UNCHANGED nonMgrVars

\* when nothing matches the first provider is used
FirstNamedOrFirst(name) ==
    IF \E i \in 1..Len(registry) : registry[i] = name
      THEN CHOOSE i \in 1..Len(registry) :
              registry[i] = name /\ \A j \in 1..(i - 1) : registry[j] # name
      ELSE 1

\* for _, p := range m.providers { if p.Name() == name { return ... } }:
\* position of the first provider with that name, 0 when there is none
FirstNamed(name) ==
    IF \E i \in 1..Len(registry) : registry[i] = name
      THEN CHOOSE i \in 1..Len(registry) :
              registry[i] = name /\ \A j \in 1..(i - 1) : registry[j] # name
      ELSE 0

\* Manager.ExecuteSwap(quote): execErr is whether the provider's Execute failed
ExecuteSwap(name, execErr) ==
    /\ mpc = "idle"
    /\ mpc' = "returned"
    /\ LET i == FirstNamed(name)
       IN IF i # 0
            THEN /\ mcalls' = <<[method |-> "Execute", idx |-> i, err |-> execErr]>>
                 /\ mret' = [NoReturn EXCEPT !.op = "ExecuteSwap", !.name = name,
                                             !.err = IF execErr THEN "provider" ELSE "nil"]
            ELSE /\ mcalls' = <<>>
                 /\ mret' = [NoReturn EXCEPT !.op = "ExecuteSwap", !.name = name,
                                             !.err = "notfound"]
    /\ UNCHANGED <<registry, mhint, mfiltered, midx, mbest, mseen, mlookups>>
    /\ UNCHANGED nonMgrVars

\* what a provider's CheckStatus returns: a status, or an error
StatusAnswers == {"pending", "completed", "failed", "err"}

\* Manager.CheckStatus(provider, txHash, externalID)
CheckStatus(name, answer) ==
    /\ mpc = "idle"
    /\ mpc' = "returned"
    /\ LET i == FirstNamed(name)
       IN IF i # 0
            THEN /\ mcalls' = <<[method |-> "CheckStatus", idx |-> i, err |-> (answer = "err")]>>
                 /\ mret' = [NoReturn EXCEPT !.op = "CheckStatus", !.name = name,
                                             !.err = IF answer = "err" THEN "provider" ELSE "nil",
                                             !.status = IF answer = "err" THEN "" ELSE answer]
            ELSE /\ mcalls' = <<>>
                 /\ mret' = [NoReturn EXCEPT !.op = "CheckStatus", !.name = name,
                                             !.err = "notfound"]
    /\ UNCHANGED <<registry, mhint, mfiltered, midx, mbest, mseen, mlookups>>
    /\ UNCHANGED nonMgrVars

\* the caller has taken the result; the manager keeps nothing of the call
MgrReturn ==
    /\ mpc = "returned"
    /\ mpc' = "idle"
    /\ mhint' = NoHint
    /\ mfiltered' = <<>>
    /\ midx' = 1
    /\ mbest' = NoQuote
    /\ mcalls' = <<>>
    /\ mseen' = {}
    /\ mret' = NoReturn
    /\ mlookups' = 0
    /\ UNCHANGED registry
    /\ UNCHANGED nonMgrVars

NextManager ==
    \/ MgrReturn
    \/ \E hint \in Hints : BestQuoteStart(hint)
    \/ QuoteErr
    \/ \E raws \in QuoteLists : QuoteOk(raws)
    \/ \E name \in ProviderNames \cup {UnknownName}, execErr \in BOOLEAN : ExecuteSwap(name, execErr)
    \/ \E name \in ProviderNames \cup {UnknownName}, answer \in StatusAnswers : CheckStatus(name, answer)


(***************************************************************************)
(* Provider.Quote of the thorchain, nearintents and simpleswap providers   *)
(***************************************************************************)
\* thorchain.SourceAssets / sourceChainTokenID / sourceChainSymbol keys
Chains == {"avalanche", "base"}
\* Go ranges over these maps in an unspecified order
ChainOrders == {<<"avalanche", "base">>, <<"base", "avalanche">>}
QuoteProviders == {"thorchain", "nearintents", "simpleswap"}
\* usdAmount values requested
UsdAmounts == {5, 50}
\* USDC has 6 decimals: int64(usdAmount * 1e6)
UsdcUnit == 1000000
\* fractional digits of the common raw scale
RawDigits == 8
\* decimals of the target asset on the intent network
TokenDecimals == {0, 1, 2}

RECURSIVE Pow10(_)
Pow10(n) == IF n = 0 THEN 1 ELSE 10 * Pow10(n - 1)

\* requiredUSDC := new(big.Int).SetInt64(int64(usdAmount * 1e6))
RequiredUSDC(usd) == usd * UsdcUnit

DigitChars == {"0", "1", "2", "3", "4", "5", "6", "7", "8", "9"}
DigitVal(ch) ==
    CASE ch = "0" -> 0 [] ch = "1" -> 1 [] ch = "2" -> 2 [] ch = "3" -> 3 [] ch = "4" -> 4
      [] ch = "5" -> 5 [] ch = "6" -> 6 [] ch = "7" -> 7 [] ch = "8" -> 8 [] ch = "9" -> 9

\* big.Int.SetString(s, 10) on a string of decimal digits
RECURSIVE SetString(_)
SetString(s) ==
    IF s = <<>> THEN 0
    ELSE SetString(SubSeq(s, 1, Len(s) - 1)) * 10 + DigitVal(s[Len(s)])

\* position of the first "." in s, 0 when there is none
DotIndex(s) ==
    IF \E i \in 1..Len(s) : s[i] = "."
      THEN CHOOSE i \in 1..Len(s) : s[i] = "." /\ \A j \in 1..(i - 1) : s[j] # "."
      ELSE 0

\* for len(frac) < 8 { frac += "0" }
RECURSIVE PadFrac(_)
PadFrac(frac) == IF Len(frac) < RawDigits THEN PadFrac(Append(frac, "0")) ELSE frac

\* the fraction is rounded to 8 digits instead of cut
parseToBigIntRounded(s) ==
    IF DotIndex(s) = 0
      THEN SetString(s) * Pow10(RawDigits)
      ELSE LET int == SubSeq(s, 1, DotIndex(s) - 1)
               frac == SubSeq(s, DotIndex(s) + 1, Len(s))
               cut == IF Len(frac) > RawDigits THEN SubSeq(frac, 1, RawDigits) ELSE frac
               up == IF Len(frac) > RawDigits /\ DigitVal(frac[RawDigits + 1]) >= 5 THEN 1 ELSE 0
           IN SetString(int \o PadFrac(cut)) + up

\* parseToBigInt: strings.SplitN(s, ".", 2); no "." -> value * 1e8; else
\* integer part followed by the fraction cut or padded to 8 digits
parseToBigInt(s) ==
    IF DotIndex(s) = 0
      THEN SetString(s) * Pow10(RawDigits)
      ELSE LET int == SubSeq(s, 1, DotIndex(s) - 1)
               frac == SubSeq(s, DotIndex(s) + 1, Len(s))
               cut == IF Len(frac) > RawDigits THEN SubSeq(frac, 1, RawDigits) ELSE frac
           IN SetString(int \o PadFrac(cut))

\* amount strings, one character per element
S_123456 == <<"1", "2", "3", "4", "5", "6">>
S_500000000 == <<"5", "0", "0", "0", "0", "0", "0", "0", "0">>
S_0_00123456 == <<"0", ".", "0", "0", "1", "2", "3", "4", "5", "6">>
S_5 == <<"5">>
S_1_5 == <<"1", ".", "5">>
S_0_123456789 == <<"0", ".", "1", "2", "3", "4", "5", "6", "7", "8", "9">>
S_15 == <<"1", "5">>

\* expected_amount_out values of the router venue (integers in 1e8 units)
ThorAmounts == {S_123456, S_500000000}
\* estimates of the custodial venue (decimal strings in whole units)
EstimateAmounts == {S_0_00123456, S_5, S_1_5, S_0_123456789}
\* amountOut values of the intent network (integers in the token's smallest unit)
NearAmounts == {S_5, S_15}

Balances(usd) ==
    {[err |-> TRUE, val |-> 0]}
    \cup [err : {FALSE},
          val : {0, RequiredUSDC(usd) - 1, RequiredUSDC(usd), RequiredUSDC(usd) + 1}]

\* what the venue answers to the quote request for one source chain
VenueAnswers(p) ==
    {[err |-> TRUE, amount |-> <<>>, addr |-> FALSE]}
    \cup [err : {FALSE},
          amount : (CASE p = "thorchain" -> ThorAmounts
                      [] p = "simpleswap" -> EstimateAmounts
                      [] OTHER -> NearAmounts),
          addr : IF p = "nearintents" THEN BOOLEAN ELSE {TRUE}]

\* the inputs of one Quote call and the environment it reads
QuoteInputs(p) ==
    UNION {[provider : {p},
            usd : {usd},
            supported : IF p = "thorchain" THEN {TRUE} ELSE BOOLEAN,
            decimals : IF p = "nearintents" THEN TokenDecimals ELSE {0},
            order : ChainOrders,
            rpc : [Chains -> BOOLEAN],
            bal : [Chains -> Balances(usd)],
            venue : [Chains -> VenueAnswers(p)]] : usd \in UsdAmounts}

NoInput ==
    [provider |-> "", usd |-> 0, supported |-> FALSE, decimals |-> 0,
     order |-> <<>>, rpc |-> [c \in Chains |-> FALSE],
     bal |-> [c \in Chains |-> [err |-> TRUE, val |-> 0]],
     venue |-> [c \in Chains |-> [err |-> TRUE, amount |-> <<>>, addr |-> FALSE]]]

MkQuote(in, chain, raw) ==
    [Provider |-> in.provider, FromChain |-> chain,
     InputAmount |-> RequiredUSDC(in.usd), ExpectedOutputRaw |-> raw]

\* the balance gate of the quote loop: rpc client present, balance read
\* without error, and bal.Cmp(requiredUSDC) >= 0
BalanceOk(in, chain) ==
    /\ in.rpc[chain]
    /\ ~in.bal[chain].err
    /\ in.bal[chain].val >= RequiredUSDC(in.usd)

\* thorchain Provider.Quote, loop body for one source chain
ThorchainChain(in, chain) ==
    IF ~BalanceOk(in, chain) THEN <<>>
    ELSE IF in.venue[chain].err THEN <<>>
    ELSE <<MkQuote(in, chain, SetString(in.venue[chain].amount))>>

\* nearintents Provider.Quote, loop body for one source chain
NearIntentsChain(in, chain) ==
    IF ~BalanceOk(in, chain) THEN <<>>
    ELSE IF in.venue[chain].err THEN <<>>
    ELSE IF ~in.venue[chain].addr THEN <<>>
    ELSE <<MkQuote(in, chain, parseToBigInt(in.venue[chain].amount))>>

\* simpleswap Provider.Quote, loop body for one source chain
SimpleSwapChain(in, chain) ==
    IF in.venue[chain].err THEN <<>>
    ELSE <<MkQuote(in, chain, parseToBigInt(in.venue[chain].amount))>>

ChainQuote(in, chain) ==
    CASE in.provider = "thorchain" -> ThorchainChain(in, chain)
      [] in.provider = "nearintents" -> NearIntentsChain(in, chain)
      [] in.provider = "simpleswap" -> SimpleSwapChain(in, chain)

\* the loop over the source chains, appending to quotes
RECURSIVE QuoteLoop(_, _)
QuoteLoop(in, order) ==
    IF order = <<>> THEN <<>>
    ELSE ChainQuote(in, Head(order)) \o QuoteLoop(in, Tail(order))

\* Provider.Quote: unsupported target asset, else the loop, else "no quotes"
Quote(in) ==
    IF ~in.supported THEN [quotes |-> <<>>, err |-> "unsupported"]
    ELSE IF QuoteLoop(in, in.order) = <<>> THEN [quotes |-> <<>>, err |-> "noquotes"]
    ELSE [quotes |-> QuoteLoop(in, in.order), err |-> "nil"]

QuoteQuiet ==
    pq = [phase |-> "idle", in |-> NoInput, quotes |-> <<>>, err |-> "unset"]

\* one call of a provider's Quote
CallQuote(in) ==
    /\ pq.phase = "idle"
    /\ pq' = [phase |-> "returned", in |-> in, quotes |-> Quote(in).quotes, err |-> Quote(in).err]
    /\ UNCHANGED nonQuoteVars

\* the caller has taken the quotes
QuoteReturn ==
    /\ pq.phase = "returned"
    /\ pq' = [phase |-> "idle", in |-> NoInput, quotes |-> <<>>, err |-> "unset"]
    /\ UNCHANGED nonQuoteVars

\* a Quote call of provider p, for any inputs
QuoteOf(p) ==
    /\ pq.phase = "idle"
    /\ \E in \in QuoteInputs(p) : CallQuote(in)

NextQuote ==
    \/ QuoteOf("thorchain")
    \/ QuoteOf("nearintents")
    \/ QuoteOf("simpleswap")
    \/ QuoteReturn

(***************************************************************************)
(* tracker.Tracker.pollTopups over the topups table                        *)
(***************************************************************************)
\* rows the bot inserts during a run
MaxTopups == 2
\* polls the tracker starts during a run
MaxPolls == 3

TopupIds == 1..MaxTopups

\* every topup row, whatever its status
AllRows == SelectSeq([i \in TopupIds |-> i], LAMBDA id : topups[id] # "none")

\* ListPendingTopups: ... FROM topups WHERE status = 'pending' ORDER BY created_at
ListPendingTopups == SelectSeq([i \in TopupIds |-> i], LAMBDA id : topups[id] = "pending")

NoCheck == [id |-> 0, answer |-> "", updateErr |-> FALSE]

TrackerQuiet ==
    /\ tlast = NoCheck
    /\ topups = [id \in TopupIds |-> "none"]
    /\ tpc = "idle"
    /\ tpending = <<>>
    /\ tpolls = 0
    /\ tasks = [id \in TopupIds |-> 0]
    /\ tnotes = [id \in TopupIds |-> 0]

TrackerInit == TrackerQuiet

\* the /topup handler stores the executed swap: InsertTopup(..., Status: "pending")
InsertTopup(id) ==
    /\ topups[id] = "none"
    /\ \A j \in 1..(id - 1) : topups[j] # "none"
    /\ topups' = [topups EXCEPT ![id] = "pending"]
    /\ UNCHANGED <<tpc, tpending, tpolls, tasks, tnotes, tlast>>
    /\ UNCHANGED nonTrackerVars

\* pollTopups up to its loop: list the pending rows; a listing error or an
\* empty list ends the poll
PollStart(listErr) ==
    /\ tpc = "idle"
    /\ tpolls < MaxPolls
    /\ tpolls' = tpolls + 1
    /\ IF listErr \/ ListPendingTopups = <<>>
         THEN UNCHANGED <<tpc, tpending>>
         ELSE /\ tpc' = "polling"
              /\ tpending' = ListPendingTopups
    /\ UNCHANGED <<topups, tasks, tnotes, tlast>>
    /\ UNCHANGED nonTrackerVars

\* the loop of pollTopups moves on to the next listed row
PollAdvance ==
    /\ tpending' = Tail(tpending)
    /\ tpc' = IF Tail(tpending) = <<>> THEN "idle" ELSE "polling"

\* an iteration of pollTopups' loop up to the return of swapMgr.CheckStatus:
\* on an error, and on any status but "completed"/"failed", the iteration is over
PollCheck(answer) ==
    /\ tpc = "polling"
    /\ tpending # <<>>
    /\ LET id == Head(tpending)
       IN /\ tasks' = [tasks EXCEPT ![id] = @ + 1]
          /\ tlast' = [id |-> id, answer |-> answer, updateErr |-> FALSE]
    /\ IF answer \in {"completed", "failed"}
         THEN /\ tpc' = "updating"
              /\ UNCHANGED tpending
         ELSE PollAdvance
    /\ UNCHANGED <<topups, tpolls, tnotes>>
    /\ UNCHANGED nonTrackerVars

\* notifyUser follows UpdateTopupStatus whether or not the update worked
PollUpdateNotifyAnyway(updateErr) ==
    /\ tpc = "updating"
    /\ LET id == Head(tpending)
       IN /\ tlast' = [tlast EXCEPT !.updateErr = updateErr]
          /\ topups' = [topups EXCEPT ![id] = IF updateErr THEN @ ELSE tlast.answer]
          /\ tpc' = "notifying"
          /\ UNCHANGED tpending
    /\ UNCHANGED <<tpolls, tasks, tnotes>>
    /\ UNCHANGED nonTrackerVars

\* the iteration's store.UpdateTopupStatus: an error ends the iteration,
\* otherwise the status is stored and notifyUser comes next
PollUpdate(updateErr) ==
    /\ tpc = "updating"
    /\ LET id == Head(tpending)
       IN /\ tlast' = [tlast EXCEPT !.updateErr = updateErr]
          /\ IF updateErr
               THEN /\ PollAdvance
                    /\ UNCHANGED topups
               ELSE /\ topups' = [topups EXCEPT ![id] = tlast.answer]
                    /\ tpc' = "notifying"
                    /\ UNCHANGED tpending
    /\ UNCHANGED <<tpolls, tasks, tnotes>>
    /\ UNCHANGED nonTrackerVars

\* the iteration's notifyUser: the message is handed to the bot API
PollNotify ==
    /\ tpc = "notifying"
    /\ tnotes' = [tnotes EXCEPT ![Head(tpending)] = @ + 1]
    /\ PollAdvance
    /\ UNCHANGED <<topups, tpolls, tasks, tlast>>
    /\ UNCHANGED nonTrackerVars

\* ctx.Done(): Run returns, or the loop returns before its next iteration.
\* A cancellation inside an iteration makes the call it waits in fail, then
\* the loop returns here.
TrackerStop ==
    /\ tpc \in {"idle", "polling"}
    /\ tpc' = "stopped"
    /\ tpending' = <<>>
    /\ UNCHANGED <<topups, tpolls, tasks, tnotes, tlast>>
    /\ UNCHANGED nonTrackerVars

NextTracker ==
    \/ \E id \in TopupIds : InsertTopup(id)
    \/ \E listErr \in BOOLEAN : PollStart(listErr)
    \/ \E answer \in StatusAnswers : PollCheck(answer)
    \/ \E updateErr \in BOOLEAN : PollUpdate(updateErr)
    \/ PollNotify
    \/ TrackerStop

(***************************************************************************)
(* Provider.CheckStatus: thorchain, simpleswap, nearintents, houdini       *)
(***************************************************************************)
StatusProviders == {"thorchain", "simpleswap", "nearintents", "houdini", "houdini-xmr"}
TxHashes == {"", "0xabc"}
ExternalIDs == {"", "ext-1"}

\* a stage pointer of the thorchain status response: nil, or its Completed flag
Stages == {"nil", "done", "open"}
NoStages == [OutboundSigned |-> "nil", SwapFinalised |-> "nil"]
ThorStatuses == [OutboundSigned : Stages, SwapFinalised : Stages]
\* Exchange.Status values of simpleswap, known and unknown
SimpleSwapStatuses ==
    {"waiting", "confirming", "exchanging", "sending", "finished", "failed",
     "refunded", "expired", "", "FINISHED"}
\* execution status values of nearintents, known and unknown
NearStatuses ==
    {"SUCCESS", "FAILED", "REFUNDED", "PENDING_DEPOSIT", "INCOMPLETE_DEPOSIT",
     "PROCESSING", "KNOWN_DEPOSIT_TX", "", "success"}
\* StatusResponse.Status codes of houdini, documented and not
HoudiniStatuses == (0 - 1)..6

VenueError == [err |-> TRUE, stages |-> NoStages, text |-> "", code |-> 0]

\* what the venue's status endpoint can answer to provider p
StatusVenue(p) ==
    {VenueError} \cup
    CASE p = "thorchain" ->
           {[err |-> FALSE, stages |-> st, text |-> "", code |-> 0] : st \in ThorStatuses}
      [] p = "simpleswap" ->
           {[err |-> FALSE, stages |-> NoStages, text |-> t, code |-> 0] : t \in SimpleSwapStatuses}
      [] p = "nearintents" ->
           {[err |-> FALSE, stages |-> NoStages, text |-> t, code |-> 0] : t \in NearStatuses}
      [] OTHER ->
           {[err |-> FALSE, stages |-> NoStages, text |-> "", code |-> c] : c \in HoudiniStatuses}

StatusInputs(p) ==
    [provider : {p}, txHash : TxHashes, externalID : ExternalIDs, venue : StatusVenue(p)]

NoStatusInput == [provider |-> "", txHash |-> "", externalID |-> "", venue |-> VenueError]
NoStatusOutput == [status |-> "", err |-> FALSE, asked |-> FALSE]
NoStatusCall == [phase |-> "idle", in |-> NoStatusInput, out |-> NoStatusOutput]

StatusResult(status) == [status |-> status, err |-> FALSE, asked |-> TRUE]
StatusFailure == [status |-> "", err |-> TRUE, asked |-> TRUE]
\* externalID == "": pending, the venue is not asked
StatusUnasked == [status |-> "pending", err |-> FALSE, asked |-> FALSE]

\* a finalised swap counts although an outbound stage is still open
ThorchainCheckStatusEitherStage(in) ==
    IF in.venue.err THEN StatusFailure
    ELSE IF in.venue.stages.OutboundSigned = "done" THEN StatusResult("completed")
    ELSE IF in.venue.stages.SwapFinalised = "done" THEN StatusResult("completed")
    ELSE StatusResult("pending")

\* thorchain Provider.CheckStatus: externalID is ignored
ThorchainCheckStatus(in) ==
    IF in.venue.err THEN StatusFailure
    ELSE IF in.venue.stages.OutboundSigned = "done" THEN StatusResult("completed")
    ELSE IF in.venue.stages.OutboundSigned = "nil" /\ in.venue.stages.SwapFinalised = "done"
      THEN StatusResult("completed")
    ELSE StatusResult("pending")

\* the default case hands the venue's own status word through
SimpleSwapCheckStatusRaw(in) ==
    IF in.externalID = "" THEN StatusUnasked
    ELSE IF in.venue.err THEN StatusFailure
    ELSE IF in.venue.text = "finished" THEN StatusResult("completed")
    ELSE IF in.venue.text \in {"failed", "refunded", "expired"} THEN StatusResult("failed")
    ELSE StatusResult(in.venue.text)

\* simpleswap Provider.CheckStatus
SimpleSwapCheckStatus(in) ==
    IF in.externalID = "" THEN StatusUnasked
    ELSE IF in.venue.err THEN StatusFailure
    ELSE IF in.venue.text = "finished" THEN StatusResult("completed")
    ELSE IF in.venue.text \in {"failed", "refunded", "expired"} THEN StatusResult("failed")
    ELSE StatusResult("pending")

\* nearintents Provider.CheckStatus
NearIntentsCheckStatus(in) ==
    IF in.externalID = "" THEN StatusUnasked
    ELSE IF in.venue.err THEN StatusFailure
    ELSE IF in.venue.text = "SUCCESS" THEN StatusResult("completed")
    ELSE IF in.venue.text \in {"FAILED", "REFUNDED"} THEN StatusResult("failed")
    ELSE StatusResult("pending")

\* houdini Provider.CheckStatus and XMRProvider.CheckStatus
HoudiniCheckStatus(in) ==
    IF in.externalID = "" THEN StatusUnasked
    ELSE IF in.venue.err THEN StatusFailure
    ELSE IF in.venue.code = 4 THEN StatusResult("completed")
    ELSE IF in.venue.code >= 5 THEN StatusResult("failed")
    ELSE StatusResult("pending")

ProviderCheckStatus(in) ==
    CASE in.provider = "thorchain" -> ThorchainCheckStatus(in)
      [] in.provider = "simpleswap" -> SimpleSwapCheckStatus(in)
      [] in.provider = "nearintents" -> NearIntentsCheckStatus(in)
      [] OTHER -> HoudiniCheckStatus(in)

StatusQuiet == ps = NoStatusCall

CallCheckStatus(in) ==
    /\ ps' = [phase |-> "returned", in |-> in, out |-> ProviderCheckStatus(in)]
    /\ UNCHANGED nonStatusVars

\* the caller has taken the status
StatusReturn ==
    /\ ps.phase = "returned"
    /\ ps' = NoStatusCall
    /\ UNCHANGED nonStatusVars

StatusOf(p) ==
    /\ ps.phase = "idle"
    /\ \E in \in StatusInputs(p) : CallCheckStatus(in)

NextStatus ==
    \/ StatusReturn
    \/ StatusOf("thorchain")
    \/ StatusOf("simpleswap")
    \/ StatusOf("nearintents")
    \/ StatusOf("houdini")
    \/ StatusOf("houdini-xmr")


(***************************************************************************)
(* swaps.ParseAsset and Asset.String                                       *)
(* strings are sequences of one-character strings                          *)
(***************************************************************************)
\* a letter in both cases, a caseless character, and the two separators
AssetChars == {"a", "A", "0", ".", "-"}
\* longest string handed to ParseAsset
MaxAssetLen == 5
\* longest chain, symbol and contract of an asset handed to String
MaxFieldLen == 2

StringsOver(chars, lo, hi) == UNION {[1..n -> chars] : n \in lo..hi}

\* strings.ToUpper / strings.ToLower
ToUpper(s) == [i \in 1..Len(s) |-> IF s[i] = "a" THEN "A" ELSE s[i]]
ToLower(s) == [i \in 1..Len(s) |-> IF s[i] = "A" THEN "a" ELSE s[i]]

\* position of the last occurrence
IndexLast(s, ch) ==
    IF \E i \in 1..Len(s) : s[i] = ch
      THEN CHOOSE i \in 1..Len(s) : s[i] = ch /\ \A j \in (i + 1)..Len(s) : s[j] # ch
      ELSE 0

\* strings.Index: position of the first occurrence, counted from 1; 0 when absent
Index(s, ch) ==
    IF \E i \in 1..Len(s) : s[i] = ch
      THEN CHOOSE i \in 1..Len(s) : s[i] = ch /\ \A j \in 1..(i - 1) : s[j] # ch
      ELSE 0

\* strings.SplitN(s, sep, 2)
SplitN2(s, sep) ==
    LET i == Index(s, sep)
    IN IF i = 0 THEN <<s>> ELSE <<SubSeq(s, 1, i - 1), SubSeq(s, i + 1, Len(s))>>

ZeroAsset == [Chain |-> <<>>, Symbol |-> <<>>, ContractAddress |-> <<>>]

\* swaps.ParseAsset
ParseAsset(s) ==
    LET parts == SplitN2(s, ".")
    IN IF Len(parts) # 2 THEN [err |-> TRUE, asset |-> ZeroAsset]
       ELSE IF parts[1] = <<>> \/ parts[2] = <<>> THEN [err |-> TRUE, asset |-> ZeroAsset]
       ELSE LET chain == ToUpper(parts[1])
                symbolPart == parts[2]
                idx == Index(symbolPart, "-")
            IN IF idx # 0
                 THEN [err |-> FALSE,
                       asset |-> [Chain |-> chain,
                                  Symbol |-> ToUpper(SubSeq(symbolPart, 1, idx - 1)),
                                  ContractAddress |-> SubSeq(symbolPart, idx + 1, Len(symbolPart))]]
                 ELSE [err |-> FALSE,
                       asset |-> [Chain |-> chain,
                                  Symbol |-> ToUpper(symbolPart),
                                  ContractAddress |-> <<>>]]

\* Asset.String
AssetString(a) ==
    IF a.ContractAddress # <<>>
      THEN a.Chain \o <<".">> \o a.Symbol \o <<"-">> \o a.ContractAddress
      ELSE a.Chain \o <<".">> \o a.Symbol

\* strings a caller hands to ParseAsset
AssetInputs == StringsOver(AssetChars, 0, MaxAssetLen)

\* assets with a non-empty uppercase chain without ".", a non-empty uppercase
\* symbol without "-" and a lowercase or empty contract
ValidAssets ==
    [Chain : StringsOver({"A", "0", "-"}, 1, MaxFieldLen),
     Symbol : StringsOver({"A", "0", "."}, 1, MaxFieldLen),
     ContractAddress : StringsOver({"a", "0", ".", "-"}, 0, MaxFieldLen)]

NoAssetCall ==
    [phase |-> "idle", op |-> "none", in |-> <<>>, given |-> ZeroAsset,
     err |-> FALSE, asset |-> ZeroAsset, str |-> <<>>]

AssetQuiet == pa = NoAssetCall

\* ParseAsset(s), and String() of the asset it returned
CallParseAsset(s) ==
    /\ pa.phase = "idle"
    /\ LET r == ParseAsset(s)
       IN pa' = [phase |-> "returned", op |-> "parse", in |-> s, given |-> ZeroAsset,
                 err |-> r.err, asset |-> r.asset,
                 str |-> IF r.err THEN <<>> ELSE AssetString(r.asset)]
    /\ UNCHANGED nonAssetVars

\* ParseAsset(a.String()), and String() of the asset it returned
CallRoundTrip(a) ==
    /\ pa.phase = "idle"
    /\ LET r == ParseAsset(AssetString(a))
       IN pa' = [phase |-> "returned", op |-> "roundtrip", in |-> AssetString(a), given |-> a,
                 err |-> r.err, asset |-> r.asset,
                 str |-> IF r.err THEN <<>> ELSE AssetString(r.asset)]
    /\ UNCHANGED nonAssetVars

AssetReturn ==
    /\ pa.phase = "returned"
    /\ pa' = NoAssetCall
    /\ UNCHANGED nonAssetVars

ParseOf ==
    /\ pa.phase = "idle"
    /\ \E s \in AssetInputs : CallParseAsset(s)

RoundTripOf ==
    /\ pa.phase = "idle"
    /\ \E a \in ValidAssets : CallRoundTrip(a)

NextAsset ==
    \/ AssetReturn
    \/ ParseOf
    \/ RoundTripOf

(***************************************************************************)
(* coingeckoClient.bestMatch                                               *)
(***************************************************************************)
\* most coins in one search result
MaxCoins == 3
\* MarketCapRank is a pointer: nil, or a number
NilRank == [set |-> FALSE, val |-> 0]
Rank(n) == [set |-> TRUE, val |-> n]
\* ranks the catalog reports: none, zero, and two real ranks
CoinRanks == {NilRank, Rank(0), Rank(5), Rank(50)}
\* symbols of catalog entries, and symbols a caller asks for
CoinSymbols == {<<"a">>, <<"A">>, <<"a", "a">>}
QuerySymbols == {<<"a">>, <<"A">>}
Coins == [Symbol : CoinSymbols, Rank : CoinRanks]
CoinLists == UNION {[1..n -> Coins] : n \in 0..MaxCoins}

\* strings.EqualFold
EqualFold(x, y) == ToLower(x) = ToLower(y)

\* the loop of bestMatch from coin i on; best is the position of the coin
\* picked so far, 0 for nil
RECURSIVE bestMatchFrom(_, _, _, _)
bestMatchFrom(coins, symbol, i, best) ==
    IF i > Len(coins) THEN best
    ELSE IF ~EqualFold(coins[i].Symbol, symbol) THEN bestMatchFrom(coins, symbol, i + 1, best)
    ELSE IF ~coins[i].Rank.set \/ coins[i].Rank.val = 0
      THEN bestMatchFrom(coins, symbol, i + 1, IF best = 0 THEN i ELSE best)
    ELSE IF best = 0 \/ ~coins[best].Rank.set \/ coins[i].Rank.val < coins[best].Rank.val
      THEN bestMatchFrom(coins, symbol, i + 1, i)
    ELSE bestMatchFrom(coins, symbol, i + 1, best)

\* coingeckoClient.bestMatch: position of the coin returned, 0 for nil
bestMatch(coins, symbol) == bestMatchFrom(coins, symbol, 1, 0)

NoMatchCall == [phase |-> "idle", coins |-> <<>>, symbol |-> <<>>, best |-> 0]

MatchQuiet == bm = NoMatchCall

CallBestMatch(coins, symbol) ==
    /\ bm.phase = "idle"
    /\ bm' = [phase |-> "returned", coins |-> coins, symbol |-> symbol,
              best |-> bestMatch(coins, symbol)]
    /\ UNCHANGED nonMatchVars

MatchReturn ==
    /\ bm.phase = "returned"
    /\ bm' = NoMatchCall
    /\ UNCHANGED nonMatchVars

MatchOf ==
    /\ bm.phase = "idle"
    /\ \E coins \in CoinLists, symbol \in QuerySymbols : CallBestMatch(coins, symbol)

NextMatch ==
    \/ MatchReturn
    \/ MatchOf

(***************************************************************************)
(* resolver.Resolver: Resolve and its matching steps                       *)
(***************************************************************************)
\* most pools in the cached pool list
MaxPools == 2
\* most chains in a coin's platform map
MaxPlatforms == 2

\* chain codes, the symbol asked for, and contract addresses
RChains == {<<"A">>, <<"0">>}
RSymbol == <<"A">>
CallerContracts == {<<>>, <<"A">>, <<"0">>}
PlatformContracts == {<<"a">>, <<"0">>}
PoolContracts == {<<>>, <<"a">>, <<"0">>}

\* the assets handed to Resolve
ResolveAssets == [Chain : {<<"A">>}, Symbol : {RSymbol}, ContractAddress : CallerContracts]

\* getPlatforms' map chain -> contract address, in the order the range
\* statement happens to visit it
PlatformLists ==
    {pl \in UNION {[1..n -> [chain : RChains, addr : PlatformContracts]] : n \in 0..MaxPlatforms} :
        \A i \in 1..Len(pl), j \in 1..Len(pl) : pl[i].chain = pl[j].chain => i = j}

\* parsedPool entries of the cached pool list (Raw is the entry itself)
Pools == [Chain : RChains, Symbol : {RSymbol}, Contract : PoolContracts]
PoolLists == UNION {[1..n -> Pools] : n \in 0..MaxPools}
NoPool == [Chain |-> <<>>, Symbol |-> <<>>, Contract |-> <<>>]

\* which matchPool calls of one Resolve fail to get the pool list
MaxAttempts == MaxPlatforms + 1
FailSets == SUBSET (1..MaxAttempts)

\* search results of the catalog: nothing, a coin with another symbol, the coin
ResolveCoins ==
    {<<>>, <<[Symbol |-> <<"a", "a">>, Rank |-> Rank(5)]>>, <<[Symbol |-> <<"a">>, Rank |-> Rank(5)]>>}
FoundCoins == {<<[Symbol |-> <<"a">>, Rank |-> Rank(5)]>>}

\* a provider's static mapping: whether the lookup function is set, and the
\* keys (chain, symbol) it knows
NilTable == [set |-> FALSE, keys |-> {}]
EmptyTable == [set |-> TRUE, keys |-> {}]
SimpleSwapTables ==
    {NilTable, EmptyTable, [set |-> TRUE, keys |-> {[chain |-> <<"A">>, symbol |-> RSymbol]}]}
HoudiniTables ==
    {EmptyTable, [set |-> TRUE, keys |-> {[chain |-> <<"0">>, symbol |-> RSymbol]}]}
\* matchToken's outcome
NearAnswers == {"err", "none", "found"}

ResolveInputs ==
    [asset : ResolveAssets, searchErr : {TRUE}, coins : {<<>>}, platformsErr : {FALSE},
     platforms : {<<>>}, pools : {<<>>}, failAt : {{}}, near : {"none"},
     simpleswap : {EmptyTable}, houdini : {EmptyTable}]
    \cup
    [asset : ResolveAssets, searchErr : {FALSE}, coins : ResolveCoins, platformsErr : {TRUE},
     platforms : {<<>>}, pools : {<<>>}, failAt : {{}}, near : {"none"},
     simpleswap : {EmptyTable}, houdini : {EmptyTable}]
    \cup
    [asset : ResolveAssets, searchErr : {FALSE}, coins : FoundCoins, platformsErr : {FALSE},
     platforms : PlatformLists, pools : PoolLists, failAt : FailSets, near : NearAnswers,
     simpleswap : SimpleSwapTables, houdini : HoudiniTables]

\* poolMatcher.matchPool over the fetched list: position of the pool, 0 when none
matchPool(pools, chain, symbol, contractAddr) ==
    LET chainUpper == ToUpper(chain)
        symbolUpper == ToUpper(symbol)
        contractLower == ToLower(contractAddr)
        hit(p) ==
            /\ EqualFold(p.Chain, chainUpper)
            /\ \/ contractLower # <<>> /\ p.Contract # <<>> /\ p.Contract = contractLower
               \/ contractLower = <<>> /\ p.Contract = <<>> /\ EqualFold(p.Symbol, symbolUpper)
    IN IF \E i \in 1..Len(pools) : hit(pools[i])
         THEN CHOOSE i \in 1..Len(pools) : hit(pools[i]) /\ \A j \in 1..(i - 1) : ~hit(pools[j])
         ELSE 0

\* the n-th r.pools.matchPool call of this Resolve
PoolAttempt(in, n, kind, chain, contractAddr) ==
    LET failed == n \in in.failAt
        i == IF failed THEN 0 ELSE matchPool(in.pools, chain, in.asset.Symbol, contractAddr)
    IN [kind |-> kind, chain |-> chain, contract |-> contractAddr, err |-> failed,
        found |-> i # 0, pool |-> IF i # 0 THEN in.pools[i] ELSE NoPool]

\* the loop goes on after a match
RECURSIVE CatalogAttemptsAll(_, _, _)
CatalogAttemptsAll(in, j, n) ==
    IF j > Len(in.platforms) THEN <<>>
    ELSE <<PoolAttempt(in, n + 1, "catalog", in.platforms[j].chain, in.platforms[j].addr)>>
            \o CatalogAttemptsAll(in, j + 1, n + 1)

\* for chain, addr := range platforms: the matchPool calls made from entry j
\* on, n calls having been made before; the loop returns on the first match
RECURSIVE CatalogAttempts(_, _, _)
CatalogAttempts(in, j, n) ==
    IF j > Len(in.platforms) THEN <<>>
    ELSE LET a == PoolAttempt(in, n + 1, "catalog", in.platforms[j].chain, in.platforms[j].addr)
         IN IF a.found THEN <<a>> ELSE <<a>> \o CatalogAttempts(in, j + 1, n + 1)

\* whether one of the attempts matched
Matched(attempts) == \E k \in 1..Len(attempts) : attempts[k].found

\* Resolver.matchThorchain: the matchPool calls it makes, in order
matchThorchain(in) ==
    LET first == IF in.asset.ContractAddress # <<>>
                   THEN <<PoolAttempt(in, 1, "caller", in.asset.Chain, in.asset.ContractAddress)>>
                   ELSE <<>>
    IN IF Matched(first) THEN first
       ELSE LET cat == CatalogAttempts(in, 1, Len(first))
            IN IF Matched(cat) THEN first \o cat
               ELSE IF Len(in.platforms) = 0 \/ in.asset.ContractAddress = <<>>
                 THEN first \o cat \o
                      <<PoolAttempt(in, Len(first) + Len(cat) + 1, "native", in.asset.Chain, <<>>)>>
               ELSE first \o cat

\* the ProviderMatch entries matchThorchain appends
ThorchainMatches(attempts) ==
    LET hits == SelectSeq(attempts, LAMBDA a : a.found)
    IN [k \in 1..Len(hits) |-> [Provider |-> "thorchain", AssetID |-> hits[k].pool]]

\* platforms[strings.ToUpper(asset.Chain)]
PlatformAddr(in) ==
    IF \E j \in 1..Len(in.platforms) : in.platforms[j].chain = ToUpper(in.asset.Chain)
      THEN in.platforms[CHOOSE j \in 1..Len(in.platforms) :
                             in.platforms[j].chain = ToUpper(in.asset.Chain)].addr
      ELSE <<>>

\* res.ContractAddress after matchThorchain
DisplayContract(in, attempts) ==
    IF PlatformAddr(in) # <<>> THEN PlatformAddr(in)
    ELSE IF \E k \in 1..Len(attempts) : attempts[k].found /\ attempts[k].kind = "catalog"
      THEN (CHOOSE a \in {attempts[k] : k \in 1..Len(attempts)} :
                a.found /\ a.kind = "catalog").contract
    ELSE <<>>

\* Resolver.matchNearIntents
matchNearIntents(in) ==
    IF in.near = "found" THEN <<[Provider |-> "nearintents", AssetID |-> NoPool]>> ELSE <<>>

\* matchSimpleSwap / matchHoudini: the key of the thorchain match first, then
\* the caller's chain.symbol
matchStatic(name, table, in, providers) ==
    IF ~table.set THEN <<>>
    ELSE IF \E k \in 1..Len(providers) :
                /\ providers[k].Provider = "thorchain"
                /\ [chain |-> ToUpper(providers[k].AssetID.Chain),
                    symbol |-> ToUpper(providers[k].AssetID.Symbol)] \in table.keys
      THEN <<[Provider |-> name, AssetID |-> NoPool]>>
    ELSE IF [chain |-> ToUpper(in.asset.Chain), symbol |-> ToUpper(in.asset.Symbol)] \in table.keys
      THEN <<[Provider |-> name, AssetID |-> NoPool]>>
    ELSE <<>>

NoResolution == [ContractAddress |-> <<>>, Providers |-> <<>>]
ResolveFailure(err, attempts) ==
    [err |-> err, returned |-> FALSE, res |-> NoResolution, attempts |-> attempts]

\* a resolution without matches is handed out as it is
ResolveFinishPartial(res, attempts) ==
    [err |-> "nil", returned |-> TRUE, res |-> res, attempts |-> attempts]

\* if len(res.Providers) == 0 { return nil, error }; return res, nil
ResolveFinish(res, attempts) ==
    IF Len(res.Providers) = 0 THEN ResolveFailure("unsupported", attempts)
    ELSE [err |-> "nil", returned |-> TRUE, res |-> res, attempts |-> attempts]

\* Resolver.Resolve
Resolve(in) ==
    IF in.searchErr THEN ResolveFailure("search", <<>>)
    ELSE IF bestMatch(in.coins, in.asset.Symbol) = 0 THEN ResolveFailure("nocoin", <<>>)
    ELSE IF in.platformsErr THEN ResolveFailure("platforms", <<>>)
    ELSE LET attempts == matchThorchain(in)
             p1 == ThorchainMatches(attempts)
             p2 == p1 \o matchNearIntents(in)
             p3 == p2 \o matchStatic("simpleswap", in.simpleswap, in, p2)
             p4 == p3 \o matchStatic("houdini", in.houdini, in, p3)
         IN ResolveFinish([ContractAddress |-> DisplayContract(in, attempts), Providers |-> p4],
                          attempts)

NoResolveInput ==
    [asset |-> ZeroAsset, searchErr |-> FALSE, coins |-> <<>>, platformsErr |-> FALSE,
     platforms |-> <<>>, pools |-> <<>>, failAt |-> {}, near |-> "none",
     simpleswap |-> EmptyTable, houdini |-> EmptyTable]
NoResolveCall == [phase |-> "idle", in |-> NoResolveInput, out |-> ResolveFailure("unset", <<>>)]

ResolveQuiet == rs = NoResolveCall

CallResolve(in) ==
    /\ rs' = [phase |-> "returned", in |-> in, out |-> Resolve(in)]
    /\ UNCHANGED nonResolveVars

ResolveReturn ==
    /\ rs.phase = "returned"
    /\ rs' = NoResolveCall
    /\ UNCHANGED nonResolveVars

ResolveOf ==
    /\ rs.phase = "idle"
    /\ \E in \in ResolveInputs : CallResolve(in)

NextResolve ==
    \/ ResolveReturn
    \/ ResolveOf

(***************************************************************************)
(* poolMatcher: fetchPools and matchPool over the downloaded catalog       *)
(***************************************************************************)
\* most entries in the downloaded pool catalog
MaxCatalog == 2

\* status values of catalog entries
PoolStatuses == {"Available", "Staged", "Suspended"}
\* asset strings of catalog entries: native and token pools, a chain in
\* lower case, a string without a dot, a string with nothing before the dot
PoolAssetStrings ==
    {<<"A", ".", "A">>, <<"a", ".", "A">>, <<"A", ".", "A", "-", "A">>,
     <<"0", ".", "A", "-", "0">>, <<"A", "A">>, <<".", "A">>}
TcPools == [Asset : PoolAssetStrings, Status : PoolStatuses]
Catalogs == UNION {[1..n -> TcPools] : n \in 0..MaxCatalog}

\* the chain, symbol and contract address handed to matchPool
PoolQueries == [chain : {<<"A">>, <<"0">>}, symbol : {<<"a">>}, contract : {<<>>, <<"A">>, <<"0">>}]

ZeroPool == [Raw |-> <<>>, Chain |-> <<>>, Symbol |-> <<>>, Contract |-> <<>>]

\* parsePoolAsset
parsePoolAsset(asset) ==
    LET parts == SplitN2(asset, ".")
    IN IF Len(parts) # 2 THEN ZeroPool
       ELSE LET rest == parts[2]
                idx == Index(rest, "-")
            IN IF idx # 0
                 THEN [Raw |-> asset, Chain |-> parts[1], Symbol |-> SubSeq(rest, 1, idx - 1),
                       Contract |-> ToLower(SubSeq(rest, idx + 1, Len(rest)))]
                 ELSE [Raw |-> asset, Chain |-> parts[1], Symbol |-> rest, Contract |-> <<>>]

\* every entry that parses is kept, whatever its status
RECURSIVE fetchPoolsAnyStatus(_)
fetchPoolsAnyStatus(catalog) ==
    IF catalog = <<>> THEN <<>>
    ELSE LET pp == parsePoolAsset(Head(catalog).Asset)
         IN IF pp.Chain # <<>> THEN <<pp>> \o fetchPoolsAnyStatus(Tail(catalog))
            ELSE fetchPoolsAnyStatus(Tail(catalog))

\* the fetch function of fetchPools: for _, p := range pools
RECURSIVE fetchPools(_)
fetchPools(catalog) ==
    IF catalog = <<>> THEN <<>>
    ELSE LET p == Head(catalog)
             pp == parsePoolAsset(p.Asset)
         IN IF p.Status # "Available" THEN fetchPools(Tail(catalog))
            ELSE IF pp.Chain # <<>> THEN <<pp>> \o fetchPools(Tail(catalog))
            ELSE fetchPools(Tail(catalog))

\* matchPool's three results after fetchPools failed or answered
PoolLookup(catalog, fetchErr, q) ==
    IF fetchErr THEN [raw |-> <<>>, found |-> FALSE, err |-> TRUE]
    ELSE LET pools == fetchPools(catalog)
             i == matchPool(pools, q.chain, q.symbol, q.contract)
         IN IF i # 0 THEN [raw |-> pools[i].Raw, found |-> TRUE, err |-> FALSE]
            ELSE [raw |-> <<>>, found |-> FALSE, err |-> FALSE]

NoPoolCall ==
    [phase |-> "idle", catalog |-> <<>>, fetchErr |-> FALSE,
     q |-> [chain |-> <<>>, symbol |-> <<>>, contract |-> <<>>],
     out |-> [raw |-> <<>>, found |-> FALSE, err |-> FALSE]]

PoolQuiet == pm = NoPoolCall

CallMatchPool(catalog, fetchErr, q) ==
    /\ pm' = [phase |-> "returned", catalog |-> catalog, fetchErr |-> fetchErr, q |-> q,
              out |-> PoolLookup(catalog, fetchErr, q)]
    /\ UNCHANGED nonPoolVars

PoolReturn ==
    /\ pm.phase = "returned"
    /\ pm' = NoPoolCall
    /\ UNCHANGED nonPoolVars

MatchPoolOf ==
    /\ pm.phase = "idle"
    /\ \E catalog \in Catalogs, fetchErr \in BOOLEAN, q \in PoolQueries :
          CallMatchPool(catalog, fetchErr, q)

NextPools ==
    \/ PoolReturn
    \/ MatchPoolOf

(***************************************************************************)
(* nearMatcher.matchToken over the fetched token list                      *)
(***************************************************************************)
\* most tokens in the fetched list
MaxTokens == 3

\* symbols, blockchain names and prices of listed tokens
TokenSymbols == {<<"A">>, <<"0">>}
TokenBlockchains == {<<"a">>, <<"A">>, <<"0">>}
TokenPrices == {0, 1, 2}
\* nearToken entries; the asset id of the token at position i is i
NearTokens == [Symbol : TokenSymbols, Blockchain : TokenBlockchains, Price : TokenPrices]
TokenLists == UNION {[1..n -> NearTokens] : n \in 0..MaxTokens}
\* the chain and symbol handed to matchToken
TokenQueries == [chain : {<<"a">>, <<"0">>, <<>>}, symbol : {<<"a">>}]

\* chainToNearBlockchain[chain]: "" for a chain without an entry
chainToNearBlockchain(chain) == IF chain = <<"A">> THEN <<"a">> ELSE <<>>

\* a later token of the same price replaces the best one
RECURSIVE matchTokenLastWins(_, _, _, _)
matchTokenLastWins(tokens, q, i, best) ==
    IF i > Len(tokens) THEN best
    ELSE LET t == tokens[i]
             wantBlockchain == chainToNearBlockchain(ToUpper(q.chain))
         IN IF ~EqualFold(t.Symbol, q.symbol) THEN matchTokenLastWins(tokens, q, i + 1, best)
            ELSE IF wantBlockchain # <<>> /\ ~EqualFold(t.Blockchain, wantBlockchain)
              THEN matchTokenLastWins(tokens, q, i + 1, best)
            ELSE IF best = 0 \/ t.Price >= tokens[best].Price
              THEN matchTokenLastWins(tokens, q, i + 1, i)
            ELSE matchTokenLastWins(tokens, q, i + 1, best)

\* matchToken's loop from position i on, best being the position of the
\* token picked so far (0: nil)
RECURSIVE matchTokenFrom(_, _, _, _)
matchTokenFrom(tokens, q, i, best) ==
    IF i > Len(tokens) THEN best
    ELSE LET t == tokens[i]
             wantBlockchain == chainToNearBlockchain(ToUpper(q.chain))
         IN IF ~EqualFold(t.Symbol, q.symbol) THEN matchTokenFrom(tokens, q, i + 1, best)
            ELSE IF wantBlockchain # <<>> /\ ~EqualFold(t.Blockchain, wantBlockchain)
              THEN matchTokenFrom(tokens, q, i + 1, best)
            ELSE IF best = 0 \/ t.Price > tokens[best].Price
              THEN matchTokenFrom(tokens, q, i + 1, i)
            ELSE matchTokenFrom(tokens, q, i + 1, best)

\* nearMatcher.matchToken: (best.AssetID, true, nil), ("", false, nil) or ("", false, err)
matchToken(tokens, fetchErr, q) ==
    IF fetchErr THEN [assetId |-> 0, found |-> FALSE, err |-> TRUE]
    ELSE LET best == matchTokenFrom(tokens, q, 1, 0)
         IN [assetId |-> best, found |-> best # 0, err |-> FALSE]

NoTokenCall ==
    [phase |-> "idle", tokens |-> <<>>, fetchErr |-> FALSE,
     q |-> [chain |-> <<>>, symbol |-> <<>>],
     out |-> [assetId |-> 0, found |-> FALSE, err |-> FALSE]]

TokenQuiet == nt = NoTokenCall

CallMatchToken(tokens, fetchErr, q) ==
    /\ nt' = [phase |-> "returned", tokens |-> tokens, fetchErr |-> fetchErr, q |-> q,
              out |-> matchToken(tokens, fetchErr, q)]
    /\ UNCHANGED nonTokenVars

TokenReturn ==
    /\ nt.phase = "returned"
    /\ nt' = NoTokenCall
    /\ UNCHANGED nonTokenVars

MatchTokenOf ==
    /\ nt.phase = "idle"
    /\ \E tokens \in TokenLists, fetchErr \in BOOLEAN, q \in TokenQueries :
          CallMatchToken(tokens, fetchErr, q)

NextTokens ==
    \/ TokenReturn
    \/ MatchTokenOf

(***************************************************************************)
(* Provider.Execute of thorchain, simpleswap, houdini and nearintents      *)
(***************************************************************************)
ExecProviders == {"thorchain", "simpleswap", "houdini", "nearintents"}
\* the keys of rpcClients, chainIDs and USDCContracts
ExecChains == {"avalanche", "base"}
\* quotes handed to Execute: the source chain, the input amount, whether the
\* venue's symbols and destination are in ExtraData, the deposit address in ExtraData
ExecQuotes ==
    [FromChain : {"base", "solana"}, InputAmount : {1, 2}, complete : BOOLEAN,
     depositAddr : {"", "d1"}]
\* what CreateExchange returns on success: the exchange id and its deposit address
Exchanges == [ID : {"x1", "x2"}, Address : {"d1", "d2", ""}]
NoExchange == [ID |-> "", Address |-> ""]
\* how building and sending a transaction ends: the step that failed, or ok
SendOutcomes == {"nonce", "gasprice", "sign", "send", "ok"}
\* how bind.WaitMined ends: an error, or the receipt of the mined transaction
WaitOutcomes == {"err", "receipt"}
\* receipt status of a mined transaction
ReceiptStatuses == {"success", "failed"}
ExecTxs == {"approveTx", "depositTx", "transferTx"}

\* common.HexToAddress: the 20 bytes of the hex string, all zero for ""
HexToAddress(a) == IF a = "" THEN "0x0" ELSE a

ExecFailure == [err |-> "error", TxHash |-> "", ExternalID |-> ""]
NoExecResult == [err |-> "unset", TxHash |-> "", ExternalID |-> ""]
NoExecQuote == [FromChain |-> "", InputAmount |-> 0, complete |-> FALSE, depositAddr |-> ""]
NoExecCall ==
    [pc |-> "idle", provider |-> "", quote |-> NoExecQuote, calls |-> <<>>,
     approveTx |-> "none", depositTx |-> "none", transferTx |-> "none",
     exchange |-> NoExchange, ret |-> NoExecResult]

ExecQuiet == ex = NoExecCall

ExecEvent(kind, arg, amount) == [kind |-> kind, arg |-> arg, amount |-> amount]

\* return swaps.ExecuteResult{}, err
ExecFail == ex' = [ex EXCEPT !.pc = "returned", !.ret = ExecFailure]

\* Execute up to its first call to the chain or the venue
ExecuteStart(p, q) ==
    /\ ex.pc = "idle"
    /\ LET started(pc) == ex' = [ex EXCEPT !.pc = pc, !.provider = p, !.quote = q]
           failed == ex' = [ex EXCEPT !.pc = "returned", !.provider = p, !.quote = q,
                                      !.ret = ExecFailure]
       IN CASE p = "thorchain" ->
                 IF q.FromChain \notin ExecChains THEN failed ELSE started("approve")
            [] p \in {"simpleswap", "houdini"} ->
                 IF ~q.complete \/ q.FromChain \notin ExecChains THEN failed
                 ELSE started("create")
            [] p = "nearintents" ->
                 IF q.depositAddr = "" \/ q.FromChain \notin ExecChains THEN failed
                 ELSE started("transfer")
    /\ UNCHANGED nonExecVars

\* approveERC20 up to rpc.SendTransaction
ApproveSend(outcome) ==
    /\ ex.pc = "approve"
    /\ IF outcome = "ok"
         THEN ex' = [ex EXCEPT !.pc = "waitApprove", !.approveTx = "pending",
                               !.calls = Append(@, ExecEvent("approve", "router", ex.quote.InputAmount))]
         ELSE ExecFail
    /\ UNCHANGED nonExecVars

\* the receipt status is not looked at
ApproveWaitAnyReceipt(outcome) ==
    /\ ex.pc = "waitApprove"
    /\ outcome = "receipt" => ex.approveTx \in ReceiptStatuses
    /\ IF outcome = "receipt"
         THEN ex' = [ex EXCEPT !.pc = "deposit",
                               !.calls = Append(@, ExecEvent("waitmined", "approveTx", 0))]
         ELSE ExecFail
    /\ UNCHANGED nonExecVars

\* approveERC20 from bind.WaitMined on
ApproveWait(outcome) ==
    /\ ex.pc = "waitApprove"
    /\ outcome = "receipt" => ex.approveTx \in ReceiptStatuses
    /\ IF outcome = "receipt" /\ ex.approveTx = "success"
         THEN ex' = [ex EXCEPT !.pc = "deposit",
                               !.calls = Append(@, ExecEvent("waitmined", "approveTx", 0))]
         ELSE ExecFail
    /\ UNCHANGED nonExecVars

\* depositWithExpiry and the return of the thorchain Execute
DepositSend(outcome) ==
    /\ ex.pc = "deposit"
    /\ IF outcome = "ok"
         THEN ex' = [ex EXCEPT !.pc = "returned", !.depositTx = "pending",
                               !.calls = Append(@, ExecEvent("deposit", "router", ex.quote.InputAmount)),
                               !.ret = [err |-> "nil", TxHash |-> "depositTx", ExternalID |-> ""]]
         ELSE ExecFail
    /\ UNCHANGED nonExecVars

\* p.client.CreateExchange of simpleswap and houdini
CreateExchange(failed, exchange) ==
    /\ ex.pc = "create"
    /\ IF failed THEN ExecFail
       ELSE ex' = [ex EXCEPT !.pc = "transfer", !.exchange = exchange,
                             !.calls = Append(@, ExecEvent("create", exchange.ID, 0))]
    /\ UNCHANGED nonExecVars

\* the address the tokens are transferred to
TransferTarget ==
    IF ex.provider = "nearintents" THEN HexToAddress(ex.quote.depositAddr)
    ELSE HexToAddress(ex.exchange.Address)

\* transferERC20 up to rpc.SendTransaction
TransferSend(outcome) ==
    /\ ex.pc = "transfer"
    /\ IF outcome = "ok"
         THEN ex' = [ex EXCEPT !.pc = IF ex.provider = "nearintents" THEN "notify"
                                      ELSE "waitTransfer",
                               !.transferTx = "pending",
                               !.calls = Append(@, ExecEvent("transfer", TransferTarget,
                                                             ex.quote.InputAmount))]
         ELSE ExecFail
    /\ UNCHANGED nonExecVars

\* the deposit address is handed out as the ExternalID
CustodialResultAddress ==
    [err |-> "nil", TxHash |-> "transferTx", ExternalID |-> ex.exchange.Address]

\* swaps.ExecuteResult{TxHash: txHash, ExternalID: exchange.ID}
CustodialResult ==
    [err |-> "nil", TxHash |-> "transferTx", ExternalID |-> ex.exchange.ID]

\* transferERC20 of simpleswap and houdini from bind.WaitMined on, and the
\* return of Execute
TransferWait(outcome) ==
    /\ ex.pc = "waitTransfer"
    /\ outcome = "receipt" => ex.transferTx \in ReceiptStatuses
    /\ IF outcome = "receipt" /\ ex.transferTx = "success"
         THEN ex' = [ex EXCEPT !.pc = "returned", !.ret = CustodialResult,
                               !.calls = Append(@, ExecEvent("waitmined", "transferTx", 0))]
         ELSE ExecFail
    /\ UNCHANGED nonExecVars

\* a failed notification fails Execute
SubmitDepositTxFatal(ok) ==
    /\ ex.pc = "notify"
    /\ ex' = [ex EXCEPT !.pc = "returned",
                        !.calls = Append(@, ExecEvent("notify", IF ok THEN "ok" ELSE "failed", 0)),
                        !.ret = IF ok THEN [err |-> "nil", TxHash |-> "transferTx",
                                            ExternalID |-> ex.quote.depositAddr]
                                ELSE ExecFailure]
    /\ UNCHANGED nonExecVars

\* p.client.SubmitDepositTx and the return of the nearintents Execute
SubmitDepositTx(ok) ==
    /\ ex.pc = "notify"
    /\ ex' = [ex EXCEPT !.pc = "returned",
                        !.calls = Append(@, ExecEvent("notify", IF ok THEN "ok" ELSE "failed", 0)),
                        !.ret = [err |-> "nil", TxHash |-> "transferTx",
                                 ExternalID |-> ex.quote.depositAddr]]
    /\ UNCHANGED nonExecVars

\* the chain mines a transaction that was sent
Mine(tx, status) ==
    /\ ex[tx] = "pending"
    /\ ex' = [ex EXCEPT ![tx] = status]
    /\ UNCHANGED nonExecVars

\* the caller takes the result
ExecuteReturn ==
    /\ ex.pc = "returned"
    /\ ex' = NoExecCall
    /\ UNCHANGED nonExecVars

NextExecute ==
    \/ \E p \in ExecProviders, q \in ExecQuotes : ExecuteStart(p, q)
    \/ \E o \in SendOutcomes : ApproveSend(o)
    \/ \E o \in WaitOutcomes : ApproveWait(o)
    \/ \E o \in SendOutcomes : DepositSend(o)
    \/ \E failed \in BOOLEAN, e \in Exchanges : CreateExchange(failed, e)
    \/ \E o \in SendOutcomes : TransferSend(o)
    \/ \E o \in WaitOutcomes : TransferWait(o)
    \/ \E ok \in BOOLEAN : SubmitDepositTx(ok)
    \/ \E tx \in ExecTxs, st \in ReceiptStatuses : Mine(tx, st)
    \/ ExecuteReturn

(***************************************************************************)
(* Manager.noQuotesError: the error BestQuote returns when best == nil     *)
(***************************************************************************)
\* the manager's rpcClients and usdcContracts (their keys), the amount asked
\* for, and what balances.USDCBalance answers per chain
NoQuotesInputs ==
    [rpcClients : SUBSET MgrRpcChains, usdcContracts : SUBSET MgrRpcChains,
     usd : UsdAmounts, bal : UNION {[MgrRpcChains -> Balances(usd)] : usd \in UsdAmounts}]

\* the chains whose balance was read: checkedAny is set and a line is appended
CheckedChains(in) ==
    {chain \in in.rpcClients : chain \in in.usdcContracts /\ ~in.bal[chain].err}

\* checkedAny is not asked for
noQuotesErrorUnchecked(in) ==
    LET requiredUSDC == RequiredUSDC(in.usd)
        allInsufficient == \A chain \in CheckedChains(in) : ~(in.bal[chain].val >= requiredUSDC)
    IN IF allInsufficient
         THEN [kind |-> "insufficient",
               lines |-> {[chain |-> c, bal |-> in.bal[c].val] : c \in CheckedChains(in)}]
         ELSE [kind |-> "noquotes", lines |-> {}]

\* Manager.noQuotesError: which of the two errors, and the balance lines in it
noQuotesErrorText(in) ==
    LET requiredUSDC == RequiredUSDC(in.usd)
        checkedAny == CheckedChains(in) # {}
        allInsufficient == \A chain \in CheckedChains(in) : ~(in.bal[chain].val >= requiredUSDC)
    IN IF checkedAny /\ allInsufficient
         THEN [kind |-> "insufficient",
               lines |-> {[chain |-> c, bal |-> in.bal[c].val] : c \in CheckedChains(in)}]
         ELSE [kind |-> "noquotes", lines |-> {}]

NoNoQuotesCall ==
    [phase |-> "idle",
     in |-> [rpcClients |-> {}, usdcContracts |-> {}, usd |-> 0,
             bal |-> [c \in MgrRpcChains |-> [err |-> TRUE, val |-> 0]]],
     out |-> [kind |-> "", lines |-> {}]]

NoQuotesQuiet == nq = NoNoQuotesCall

\* BestQuote with best == nil: return nil, m.noQuotesError(...)
CallNoQuotesError(in) ==
    /\ nq' = [phase |-> "returned", in |-> in, out |-> noQuotesErrorText(in)]
    /\ UNCHANGED nonNoQuotesVars

NoQuotesReturn ==
    /\ nq.phase = "returned"
    /\ nq' = NoNoQuotesCall
    /\ UNCHANGED nonNoQuotesVars

NoQuotesOf ==
    /\ nq.phase = "idle"
    /\ \E in \in NoQuotesInputs : CallNoQuotesError(in)

NextNoQuotes ==
    \/ NoQuotesReturn
    \/ NoQuotesOf

(***************************************************************************)
(* parseToBigInt on decimal strings                                        *)
(***************************************************************************)
\* most fractional digits of a string handed to parseToBigInt
MaxFracLen == 9

\* integer parts and fractional digits of the amounts a venue sends
IntParts == {<<>>, <<"0">>, <<"1">>, <<"5">>, <<"0", "1">>, <<"1", "0">>, <<"1", "1">>}
FracDigits == {"0", "9"}
\* decimal strings: without a point, with a point, and the amount 0.00123456
DecimalStrings ==
    (IntParts \ {<<>>})
    \cup {i \o <<".">> \o f : i \in IntParts, f \in StringsOver(FracDigits, 0, MaxFracLen)}
    \cup {<<"0", ".", "0", "0", "1", "2", "3", "4", "5", "6">>}

NoParseCall == [phase |-> "idle", s |-> <<>>, val |-> 0]

ParseQuiet == pb = NoParseCall

CallParseToBigInt(s) ==
    /\ pb' = [phase |-> "returned", s |-> s, val |-> parseToBigInt(s)]
    /\ UNCHANGED nonParseVars

ParseReturn ==
    /\ pb.phase = "returned"
    /\ pb' = NoParseCall
    /\ UNCHANGED nonParseVars

ParseToBigIntOf ==
    /\ pb.phase = "idle"
    /\ \E s \in DecimalStrings : CallParseToBigInt(s)

NextParse ==
    \/ ParseReturn
    \/ ParseToBigIntOf

(***************************************************************************)
(* simpleswapMatcher: refresh and match under the matcher's RWMutex        *)
(***************************************************************************)
\* most successful catalog downloads
MaxDownloads == 2

\* goroutines running refresh and goroutines running match
Refreshers == {"r1", "r2"}
Matchers == {"m1", "m2"}

\* an index: the download it was built from (0: the maps made by
\* newSimpleswapMatcher) and whether the build loop has finished
BuiltIndex(gen) == [gen |-> gen, filled |-> TRUE]
PartialIndex(gen) == [gen |-> gen, filled |-> FALSE]
\* a local variable not assigned yet
NoIndex == [gen |-> 0 - 1, filled |-> FALSE]

\* client: "unbuilt" before newSimpleswapMatcher, then "nil" or "set"
MatcherInit ==
    sm = [client |-> "unbuilt", nilReturns |-> 0,
          byContract |-> BuiltIndex(0), bySymbol |-> BuiltIndex(0),
          readers |-> {}, writer |-> "none", downloads |-> 0,
          rpc |-> [r \in Refreshers |-> "idle"],
          local |-> [r \in Refreshers |-> NoIndex],
          rerr |-> [r \in Refreshers |-> FALSE],
          mpc |-> [m \in Matchers |-> "idle"],
          seenContract |-> [m \in Matchers |-> NoIndex],
          seenSymbol |-> [m \in Matchers |-> NoIndex]]

MatcherQuiet == MatcherInit

\* newSimpleswapMatcher(client): the client may be nil, both maps are empty
newSimpleswapMatcher(client) ==
    /\ sm.client = "unbuilt"
    /\ sm' = [sm EXCEPT !.client = client,
                        !.byContract = BuiltIndex(0), !.bySymbol = BuiltIndex(0)]
    /\ UNCHANGED nonMatcherVars

\* refresh on a matcher without a client: return nil at once, nothing is
\* downloaded and no map changes
RefreshNilClient(r) ==
    /\ sm.client = "nil"
    /\ sm.rpc[r] = "idle"
    /\ sm.nilReturns < MaxDownloads
    /\ sm' = [sm EXCEPT !.nilReturns = @ + 1, !.local[r] = NoIndex, !.rerr[r] = FALSE]
    /\ UNCHANGED nonMatcherVars

\* refresh is called on a matcher with a client: GetAllCurrencies is asked
RefreshStart(r) ==
    /\ sm.client = "set"
    /\ sm.rpc[r] = "idle"
    /\ sm' = [sm EXCEPT !.rpc[r] = "fetch", !.local[r] = NoIndex, !.rerr[r] = FALSE]
    /\ UNCHANGED nonMatcherVars

\* m.client.GetAllCurrencies failed: return err
RefreshFetchErr(r) ==
    /\ sm.rpc[r] = "fetch"
    /\ sm' = [sm EXCEPT !.rpc[r] = "idle", !.rerr[r] = TRUE]
    /\ UNCHANGED nonMatcherVars

\* m.client.GetAllCurrencies answered: the two local maps are made
RefreshFetchOk(r) ==
    /\ sm.rpc[r] = "fetch"
    /\ sm.downloads < MaxDownloads
    /\ sm' = [sm EXCEPT !.rpc[r] = "build", !.downloads = @ + 1,
                        !.local[r] = PartialIndex(sm.downloads + 1)]
    /\ UNCHANGED nonMatcherVars

\* for _, c := range currencies: the local maps are filled
RefreshBuild(r) ==
    /\ sm.rpc[r] = "build"
    /\ sm' = [sm EXCEPT !.rpc[r] = "built", !.local[r] = BuiltIndex(sm.local[r].gen)]
    /\ UNCHANGED nonMatcherVars

\* the write lock is taken while readers hold the read lock
RefreshLockNoWait(r) ==
    /\ sm.rpc[r] = "built"
    /\ sm.writer = "none"
    /\ sm' = [sm EXCEPT !.rpc[r] = "locked", !.writer = r]
    /\ UNCHANGED nonMatcherVars

\* m.mu.Lock()
RefreshLock(r) ==
    /\ sm.rpc[r] = "built"
    /\ sm.writer = "none" /\ sm.readers = {}
    /\ sm' = [sm EXCEPT !.rpc[r] = "locked", !.writer = r]
    /\ UNCHANGED nonMatcherVars

\* m.byContract = byContract
RefreshSetByContract(r) ==
    /\ sm.rpc[r] = "locked"
    /\ sm' = [sm EXCEPT !.rpc[r] = "half", !.byContract = sm.local[r]]
    /\ UNCHANGED nonMatcherVars

\* m.bySymbol = bySymbol
RefreshSetBySymbol(r) ==
    /\ sm.rpc[r] = "half"
    /\ sm' = [sm EXCEPT !.rpc[r] = "swapped", !.bySymbol = sm.local[r]]
    /\ UNCHANGED nonMatcherVars

\* m.mu.Unlock(); return nil
RefreshUnlock(r) ==
    /\ sm.rpc[r] = "swapped"
    /\ sm' = [sm EXCEPT !.rpc[r] = "idle", !.writer = "none"]
    /\ UNCHANGED nonMatcherVars

\* match is called: m.mu.RLock()
MatchRLock(m, hasContract) ==
    /\ sm.client # "unbuilt"
    /\ sm.mpc[m] = "idle"
    /\ sm.writer = "none"
    /\ sm' = [sm EXCEPT !.mpc[m] = IF hasContract THEN "contract" ELSE "symbol",
                        !.readers = @ \cup {m},
                        !.seenContract[m] = NoIndex, !.seenSymbol[m] = NoIndex]
    /\ UNCHANGED nonMatcherVars

\* the lookups in m.byContract; a hit returns
MatchByContract(m, hit) ==
    /\ sm.mpc[m] = "contract"
    /\ hit => sm.byContract.gen > 0
    /\ sm' = [sm EXCEPT !.mpc[m] = IF hit THEN "unlock" ELSE "symbol",
                        !.seenContract[m] = sm.byContract]
    /\ UNCHANGED nonMatcherVars

\* the lookups in m.bySymbol
MatchBySymbol(m) ==
    /\ sm.mpc[m] = "symbol"
    /\ sm' = [sm EXCEPT !.mpc[m] = "unlock", !.seenSymbol[m] = sm.bySymbol]
    /\ UNCHANGED nonMatcherVars

\* the deferred m.mu.RUnlock() as match returns
MatchRUnlock(m) ==
    /\ sm.mpc[m] = "unlock"
    /\ sm' = [sm EXCEPT !.mpc[m] = "idle", !.readers = @ \ {m}]
    /\ UNCHANGED nonMatcherVars

NextMatcher ==
    \/ \E client \in {"nil", "set"} : newSimpleswapMatcher(client)
    \/ \E r \in Refreshers : RefreshNilClient(r)
    \/ \E r \in Refreshers : RefreshStart(r)
    \/ \E r \in Refreshers : RefreshFetchErr(r)
    \/ \E r \in Refreshers : RefreshFetchOk(r)
    \/ \E r \in Refreshers : RefreshBuild(r)
    \/ \E r \in Refreshers : RefreshLock(r)
    \/ \E r \in Refreshers : RefreshSetByContract(r)
    \/ \E r \in Refreshers : RefreshSetBySymbol(r)
    \/ \E r \in Refreshers : RefreshUnlock(r)
    \/ \E m \in Matchers, hasContract \in BOOLEAN : MatchRLock(m, hasContract)
    \/ \E m \in Matchers, hit \in BOOLEAN : MatchByContract(m, hit)
    \/ \E m \in Matchers : MatchBySymbol(m)
    \/ \E m \in Matchers : MatchRUnlock(m)

(***************************************************************************)
(* tracker.Tracker: pollGasRefills over the gas_refills table              *)
(***************************************************************************)
\* gas refill orders stored during a run
MaxRefills == 2
\* polls of the gas refills the tracker starts during a run
MaxRefillPolls == 3

RefillIds == 1..MaxRefills

\* what CheckOrderStatus hands back: the venue's status word, or an error
OrderStatuses == {"open", "presignaturePending", "fulfilled", "expired", "cancelled", "FULFILLED"}
OrderAnswers == OrderStatuses \cup {"error"}

\* every stored row, whatever its status
AllGasRefills == SelectSeq([i \in RefillIds |-> i], LAMBDA id : gr.rows[id] # "none")

\* ListPendingGasRefills: ... FROM gas_refills WHERE status = 'open' ORDER BY created_at
ListPendingGasRefills == SelectSeq([i \in RefillIds |-> i], LAMBDA id : gr.rows[id] = "open")

RefillInit ==
    gr = [rows |-> [id \in RefillIds |-> "none"], pc |-> "idle", pending |-> <<>>, cur |-> 0,
          polls |-> 0,
          asks |-> [id \in RefillIds |-> 0], last |-> [id \in RefillIds |-> ""],
          writes |-> [id \in RefillIds |-> 0], closedAt |-> [id \in RefillIds |-> 0],
          notes |-> [id \in RefillIds |-> 0]]

RefillQuiet == RefillInit

\* the bot stores a placed order: InsertGasRefill(..., Status: "open")
InsertGasRefill(id) ==
    /\ gr.rows[id] = "none"
    /\ \A j \in 1..(id - 1) : gr.rows[j] # "none"
    /\ gr' = [gr EXCEPT !.rows[id] = "open"]
    /\ UNCHANGED nonRefillVars

\* pollGasRefills up to its loop: no venue client, a listing error or an
\* empty list end the poll
RefillPollStart(noClient, listErr) ==
    /\ gr.pc = "idle"
    /\ gr.polls < MaxRefillPolls
    /\ IF noClient \/ listErr \/ ListPendingGasRefills = <<>>
         THEN gr' = [gr EXCEPT !.polls = @ + 1]
         ELSE gr' = [gr EXCEPT !.polls = @ + 1, !.pc = "polling",
                               !.pending = ListPendingGasRefills]
    /\ UNCHANGED nonRefillVars

\* where the loop of pollGasRefills stands once the current iteration is over
RefillLoopPc == IF gr.pending = <<>> THEN "idle" ELSE "polling"

\* an iteration of pollGasRefills' loop up to the return of CheckOrderStatus:
\* an error and every status but fulfilled / expired / cancelled end it
RefillPollCheck(answer) ==
    /\ gr.pc = "polling"
    /\ gr.pending # <<>>
    /\ LET id == Head(gr.pending)
           rest == Tail(gr.pending)
       IN IF answer \in {"fulfilled", "expired", "cancelled"}
            THEN gr' = [gr EXCEPT !.asks[id] = @ + 1, !.last[id] = answer,
                                  !.pending = rest, !.cur = id, !.pc = "updating"]
            ELSE gr' = [gr EXCEPT !.asks[id] = @ + 1, !.last[id] = answer,
                                  !.pending = rest,
                                  !.pc = IF rest = <<>> THEN "idle" ELSE "polling"]
    /\ UNCHANGED nonRefillVars

\* the iteration's UpdateGasRefillStatus: an error ends the iteration,
\* otherwise the status is stored and notifyGasRefill comes next
RefillPollUpdate(updateErr) ==
    /\ gr.pc = "updating"
    /\ IF updateErr
         THEN gr' = [gr EXCEPT !.cur = 0, !.pc = RefillLoopPc]
         ELSE gr' = [gr EXCEPT !.rows[gr.cur] = gr.last[gr.cur], !.writes[gr.cur] = @ + 1,
                               !.closedAt[gr.cur] = gr.asks[gr.cur], !.pc = "notifying"]
    /\ UNCHANGED nonRefillVars

\* the iteration's notifyGasRefill
RefillPollNotify ==
    /\ gr.pc = "notifying"
    /\ gr' = [gr EXCEPT !.notes[gr.cur] = @ + 1, !.cur = 0, !.pc = RefillLoopPc]
    /\ UNCHANGED nonRefillVars

\* ctx.Done(): Run returns, or the loop returns before its next iteration
RefillStop ==
    /\ gr.pc \in {"idle", "polling"}
    /\ gr' = [gr EXCEPT !.pc = "stopped", !.pending = <<>>]
    /\ UNCHANGED nonRefillVars

NextRefills ==
    \/ \E id \in RefillIds : InsertGasRefill(id)
    \/ \E noClient \in BOOLEAN, listErr \in BOOLEAN : RefillPollStart(noClient, listErr)
    \/ \E answer \in OrderAnswers : RefillPollCheck(answer)
    \/ \E updateErr \in BOOLEAN : RefillPollUpdate(updateErr)
    \/ RefillPollNotify
    \/ RefillStop

(***************************************************************************)
(* cowswap.Client.RefillGasIfNeeded: the gasless gas refill.  Amounts are  *)
(* small naturals; the outcome of every outside call (allowance read,      *)
(* nonce read, permit signature, quote, order signature, submission) is an *)
(* input of the call, and the calls actually made are logged in order.     *)
(***************************************************************************)
MaxWei == 2

SupportedChains == {"base", "avalanche"}

CowChains == SupportedChains \cup {"ethereum"}

CowCallKinds == {"allowance", "nonce", "permit", "quote", "signOrder", "submit"}

defaultAppDataJSON == "default"

PermitAppData == "permitHook"

CowInputs ==
    [chain : CowChains, hasRpc : BOOLEAN,
     nativeBalance : 0..MaxWei, minNativeWei : 1..MaxWei,
     usdcBalance : 0..MaxWei, refillUSDC : 1..MaxWei,
     allowance : 0..MaxWei, fails : SUBSET CowCallKinds]

CowCall(kind, appData) == [kind |-> kind, appData |-> appData]

CowNil == [kind |-> "nil", chain |-> "", orderUID |-> "", status |-> ""]

CowError(stage) == [kind |-> "error", chain |-> "", orderUID |-> stage, status |-> ""]

\* the three early returns of RefillGasIfNeeded: (nil, nil) unless all hold
RefillGuardNoUsdcCheck(in) ==
    /\ in.chain \in SupportedChains
    /\ ~(in.nativeBalance >= in.minNativeWei)

RefillGuard(in) ==
    /\ in.chain \in SupportedChains
    /\ ~(in.nativeBalance >= in.minNativeWei)
    /\ ~(in.usdcBalance < in.refillUSDC)

\* needsPermit: allowance(owner, VaultRelayer) read over the chain's RPC
needsPermitAtMost(in) ==
    IF ~in.hasRpc THEN [err |-> TRUE, needs |-> FALSE, calls |-> <<>>]
    ELSE IF "allowance" \in in.fails
    THEN [err |-> TRUE, needs |-> FALSE, calls |-> <<CowCall("allowance", "")>>]
    ELSE [err |-> FALSE, needs |-> in.allowance <= in.refillUSDC,
          calls |-> <<CowCall("allowance", "")>>]

needsPermit(in) ==
    IF ~in.hasRpc THEN [err |-> TRUE, needs |-> FALSE, calls |-> <<>>]
    ELSE IF "allowance" \in in.fails
    THEN [err |-> TRUE, needs |-> FALSE, calls |-> <<CowCall("allowance", "")>>]
    ELSE [err |-> FALSE, needs |-> in.allowance < in.refillUSDC,
          calls |-> <<CowCall("allowance", "")>>]

\* signPermit: nonce read, EIP-712 signature, appData document with a pre-hook
signPermit(in) ==
    IF ~in.hasRpc THEN [err |-> TRUE, appData |-> "", calls |-> <<>>]
    ELSE IF "nonce" \in in.fails
    THEN [err |-> TRUE, appData |-> "", calls |-> <<CowCall("nonce", "")>>]
    ELSE IF "permit" \in in.fails
    THEN [err |-> TRUE, appData |-> "",
          calls |-> <<CowCall("nonce", ""), CowCall("permit", "")>>]
    ELSE [err |-> FALSE, appData |-> PermitAppData,
          calls |-> <<CowCall("nonce", ""), CowCall("permit", "")>>]

\* GetQuote: an unsupported chain is an error before any request; an empty
\* appData is replaced by the default document
GetQuote(in, appData) ==
    LET sent == IF appData = "" THEN defaultAppDataJSON ELSE appData
    IN  IF in.chain \notin SupportedChains THEN [err |-> TRUE, calls |-> <<>>]
        ELSE [err |-> "quote" \in in.fails, calls |-> <<CowCall("quote", sent)>>]

SignOrder(in) ==
    [err |-> "signOrder" \in in.fails, calls |-> <<CowCall("signOrder", "")>>]

\* SubmitOrder: an unsupported chain is an error before any request
SubmitOrder(in) ==
    IF in.chain \notin SupportedChains THEN [err |-> TRUE, calls |-> <<>>]
    ELSE [err |-> "submit" \in in.fails, calls |-> <<CowCall("submit", "")>>]

RefillGasIfNeeded(in) ==
    IF ~RefillGuard(in) THEN [ret |-> CowNil, calls |-> <<>>]
    ELSE
    LET np == needsPermit(in) IN
    IF np.err THEN [ret |-> CowError("checking permit need"), calls |-> np.calls]
    ELSE
    LET sp == IF np.needs THEN signPermit(in)
              ELSE [err |-> FALSE, appData |-> "", calls |-> <<>>]
        c1 == np.calls \o sp.calls
    IN
    IF sp.err THEN [ret |-> CowError("signing permit"), calls |-> c1]
    ELSE
    LET q  == GetQuote(in, sp.appData)
        c2 == c1 \o q.calls
    IN
    IF q.err THEN [ret |-> CowError("getting quote"), calls |-> c2]
    ELSE
    LET sg == SignOrder(in)
        c3 == c2 \o sg.calls
    IN
    IF sg.err THEN [ret |-> CowError("signing order"), calls |-> c3]
    ELSE
    LET sb == SubmitOrder(in)
        c4 == c3 \o sb.calls
    IN
    IF sb.err THEN [ret |-> CowError("submitting order"), calls |-> c4]
    ELSE [ret |-> [kind |-> "result", chain |-> in.chain,
                   orderUID |-> "uid", status |-> "open"],
          calls |-> c4]

NoCowCall ==
    [phase |-> "idle",
     in |-> [chain |-> "", hasRpc |-> FALSE, nativeBalance |-> 0,
             minNativeWei |-> 0, usdcBalance |-> 0, refillUSDC |-> 0,
             allowance |-> 0, fails |-> {}],
     calls |-> <<>>, ret |-> CowNil]

CowQuiet == cw = NoCowCall

CallRefillGasIfNeeded(in) ==
    LET r == RefillGasIfNeeded(in)
    IN  /\ cw' = [phase |-> "returned", in |-> in, calls |-> r.calls, ret |-> r.ret]
        /\ UNCHANGED nonCowVars

CowReturn ==
    /\ cw.phase = "returned"
    /\ cw' = NoCowCall
    /\ UNCHANGED nonCowVars

RefillGasIfNeededOf ==
    /\ cw.phase = "idle"
    /\ \E in \in CowInputs : CallRefillGasIfNeeded(in)

NextCow ==
    \/ RefillGasIfNeededOf
    \/ CowReturn

(***************************************************************************)
(* bot.Bot.walletIndex over the users, chats and address_assignments       *)
(* tables.  A table is the sequence of its rows in insertion order; the    *)
(* AUTOINCREMENT id of a row is its position.  Bot.Run handles one message *)
(* at a time, so one call of walletIndex runs at a time; each of its two   *)
(* store calls is a step, and other goroutines run between them.           *)
(***************************************************************************)
MaxEntities == 2

ModeSingle == "single"

ModeMulti == "multi"

TgUserIds == {10 + i : i \in 1..MaxEntities}

TgChatIds == {20 + i : i \in 1..MaxEntities}

WalletMsgs == [private : BOOLEAN, from : TgUserIds, chat : TgChatIds]

RowId(table, key) == CHOOSE i \in 1..Len(table) : table[i] = key

HasRow(table, key) == \E i \in 1..Len(table) : table[i] = key

\* GetOrCreateUser / GetOrCreateChat: the row of the telegram id, appended if absent
GetOrCreateEntity(table, tgId) ==
    IF HasRow(table, tgId) THEN [table |-> table, id |-> RowId(table, tgId)]
    ELSE [table |-> Append(table, tgId), id |-> Len(table) + 1]

\* GetAddressAssignment with the assigned_to_type condition left out
GetOrCreateAddressAssignmentAnyType(table, assignedToID, assignedToType) ==
    IF \E i \in 1..Len(table) : table[i].id = assignedToID
    THEN [table |-> table,
          id |-> CHOOSE i \in 1..Len(table) : table[i].id = assignedToID]
    ELSE [table |-> Append(table, [id |-> assignedToID, type |-> assignedToType]),
          id |-> Len(table) + 1]

GetOrCreateAddressAssignment(table, assignedToID, assignedToType) ==
    LET key == [id |-> assignedToID, type |-> assignedToType]
    IN  IF HasRow(table, key) THEN [table |-> table, id |-> RowId(table, key)]
        ELSE [table |-> Append(table, key), id |-> Len(table) + 1]

\* the migration that created address_assignments: users first, then chats
SeedAssignments(nUsers, nChats) ==
    [i \in 1..(nUsers + nChats) |->
        IF i <= nUsers THEN [id |-> i, type |-> "user"]
        ELSE [id |-> i - nUsers, type |-> "chat"]]

WalletSeeds ==
    {[users |-> u, chats |-> c, assignments |-> SeedAssignments(Len(u), Len(c))] :
        u \in {<<>>} \cup {<<t>> : t \in TgUserIds},
        c \in {<<>>} \cup {<<t>> : t \in TgChatIds}}

\* the entity a message is from: the user in a private chat, the chat otherwise
Who(msg) ==
    [type |-> IF msg.private THEN "user" ELSE "chat",
     tgId |-> IF msg.private THEN msg.from ELSE msg.chat]

NoWho == [type |-> "", tgId |-> 0]

NoWalletReturn == [err |-> FALSE, index |-> 0]

NoWallet ==
    [mode |-> "", users |-> <<>>, chats |-> <<>>, assignments |-> <<>>,
     given |-> {},
     pc |-> "idle", who |-> NoWho, entity |-> 0, ret |-> NoWalletReturn]

WalletQuiet == wa = NoWallet

\* start-up: the configuration is loaded and the migrations have run
WalletStart ==
    /\ wa = NoWallet
    /\ \E mode \in {ModeSingle, ModeMulti}, seed \in WalletSeeds :
           wa' = [NoWallet EXCEPT !.mode = mode, !.users = seed.users,
                                  !.chats = seed.chats,
                                  !.assignments = seed.assignments]
    /\ UNCHANGED nonWalletVars

Given(who, index) == [type |-> who.type, tgId |-> who.tgId, index |-> index]

\* walletIndex is called: single mode returns index 0 without a database
\* call; multi mode makes its first store call, GetOrCreateUser for a private
\* chat and GetOrCreateChat otherwise, whose error is walletIndex's error
walletIndexCallWrites(msg, dbErr) ==
    /\ wa.mode # ""
    /\ wa.pc = "idle"
    /\ (wa.mode = ModeSingle) => ~dbErr
    /\ LET e == IF msg.private THEN GetOrCreateEntity(wa.users, msg.from)
                ELSE GetOrCreateEntity(wa.chats, msg.chat)
       IN  wa' = IF wa.mode = ModeSingle
                 THEN [wa EXCEPT !.pc = "returned",
                                 !.ret = [err |-> FALSE, index |-> 0],
                                 !.given = @ \cup {Given(Who(msg), 0)}]
                 ELSE IF dbErr
                 THEN [wa EXCEPT !.pc = "returned",
                                 !.ret = [err |-> TRUE, index |-> 0]]
                 ELSE [wa EXCEPT !.users = IF msg.private THEN e.table ELSE @,
                                 !.chats = IF msg.private THEN @ ELSE e.table,
                                 !.who = Who(msg),
                                 !.entity = e.id,
                                 !.pc = "assignment"]

walletIndexCall(msg, dbErr) ==
    /\ walletIndexCallWrites(msg, dbErr)
    /\ UNCHANGED nonWalletVars

\* the second store call: GetOrCreateAddressAssignment for the row of the
\* first; its id is the index
walletIndexAssignment(dbErr) ==
    /\ wa.pc = "assignment"
    /\ LET a == GetOrCreateAddressAssignment(wa.assignments, wa.entity, wa.who.type)
       IN  wa' = IF dbErr
                 THEN [wa EXCEPT !.pc = "returned", !.who = NoWho, !.entity = 0,
                                 !.ret = [err |-> TRUE, index |-> 0]]
                 ELSE [wa EXCEPT !.assignments = a.table,
                                 !.given = @ \cup {Given(wa.who, a.id)},
                                 !.pc = "returned", !.who = NoWho, !.entity = 0,
                                 !.ret = [err |-> FALSE, index |-> a.id]]
    /\ UNCHANGED nonWalletVars

\* the caller has taken walletIndex's result
walletIndexReturnWrites ==
    /\ wa.pc = "returned"
    /\ wa' = [wa EXCEPT !.pc = "idle", !.ret = NoWalletReturn]

walletIndexReturn ==
    /\ walletIndexReturnWrites
    /\ UNCHANGED nonWalletVars

NextWallet ==
    \/ WalletStart
    \/ \E msg \in WalletMsgs, dbErr \in BOOLEAN : walletIndexCall(msg, dbErr)
    \/ \E dbErr \in BOOLEAN : walletIndexAssignment(dbErr)
    \/ walletIndexReturn

(***************************************************************************)
(* bot.Bot.Run: the dispatch of one update, with Config.IsAuthorized.      *)
(***************************************************************************)
MaxSenders == 3

SenderIds == 1..MaxSenders

AuthConfigs ==
    [Mode : {ModeSingle, ModeMulti}, AdminUserID : SenderIds,
     WhitelistedUsers : SUBSET SenderIds]

\* an update: without a message, or a message from a private or a group chat
Updates == [hasMessage : BOOLEAN, private : BOOLEAN, from : SenderIds]

NoAuth ==
    [started |-> FALSE,
     config |-> [Mode |-> "", AdminUserID |-> 0, WhitelistedUsers |-> {}],
     update |-> [hasMessage |-> FALSE, private |-> FALSE, from |-> 0],
     did |-> ""]

AuthQuiet == au = NoAuth

IsAuthorizedEveryone(c, userID) ==
    IF userID = c.AdminUserID THEN TRUE
    ELSE TRUE

IsAuthorized(c, userID) ==
    IF userID = c.AdminUserID THEN TRUE
    ELSE IF c.Mode = ModeMulti THEN TRUE
    ELSE userID \in c.WhitelistedUsers

\* what the loop body of Run does with one update
RunDispatch(c, u) ==
    LET isGroup == ~u.private
    IN  IF ~u.hasMessage THEN "skipped"
        ELSE IF isGroup /\ c.Mode = ModeSingle THEN "groupRejected"
        ELSE IF ~isGroup /\ ~IsAuthorized(c, u.from) THEN "unauthorized"
        ELSE "handleMessage"

AuthStart ==
    /\ ~au.started
    /\ \E c \in AuthConfigs : au' = [NoAuth EXCEPT !.started = TRUE, !.config = c]
    /\ UNCHANGED nonAuthVars

RunUpdate(u) ==
    /\ au.started
    /\ au' = [au EXCEPT !.update = u, !.did = RunDispatch(au.config, u)]
    /\ UNCHANGED nonAuthVars

NextAuth ==
    \/ AuthStart
    \/ \E u \in Updates : RunUpdate(u)

(***************************************************************************)
(* bot.Bot.handleQuote and bot.Bot.handleTopup: one command from its       *)
(* arguments to its last reply.  Bot.Run handles one update at a time, so  *)
(* a command starts when the one before it has ended; every call a handler *)
(* makes that waits on the database or the network is a step of its own,   *)
(* and the outcome of the call is the step's input.                        *)
(***************************************************************************)
MaxCommands == 2

CommandNames == {"quote", "topup"}

TopupProviders == {"thorchain", "simpleswap"}

SwapResults == [TxHash : {"0xa", "0xb"}, ExternalID : {"", "ex1"}]

NoCommandMsg == [private |-> TRUE, from |-> 0, chat |-> 0]

NoTopupCommand ==
    [cmd |-> "",
     in |-> [fail |-> "", provider |-> "", TxHash |-> "", ExternalID |-> ""],
     quoteID |-> 0, executes |-> 0, executed |-> FALSE, reply |-> ""]

TopupQuiet ==
    ht = [quoteRows |-> <<>>, topupRows |-> <<>>, commands |-> 0,
          pc |-> "idle", msg |-> NoCommandMsg, out |-> "", last |-> NoTopupCommand]

\* the handler goes on to its last b.reply: fail is the call that failed, if one did
CommandReplies(h, fail, text) ==
    [h EXCEPT !.pc = "reply", !.out = text, !.last.in.fail = fail]

\* parseSwapArgs on the command's arguments
CommandParse(cmd, msg, parseErr) ==
    /\ ht.pc = "idle"
    /\ wa.mode # ""
    /\ ht.commands < MaxCommands
    /\ LET started == [ht EXCEPT !.commands = @ + 1, !.msg = msg,
                                 !.last = [NoTopupCommand EXCEPT !.cmd = cmd,
                                                                 !.in.fail = "none"]]
       IN  ht' = IF parseErr
                 THEN CommandReplies(started, "parseSwapArgs", "parseSwapArgs")
                 ELSE [started EXCEPT !.pc = "walletIndex"]
    /\ UNCHANGED nonTopupVars

\* the handler calls walletIndex on the message
CommandWalletIndex(dbErr) ==
    /\ ht.pc = "walletIndex"
    /\ walletIndexCallWrites(ht.msg, dbErr)
    /\ ht' = [ht EXCEPT !.pc = "DeriveKey"]
    /\ UNCHANGED nonTopupWalletVars

\* walletIndex has returned: its error is replied, otherwise the key (/topup)
\* or the address (/quote) of the index is derived
CommandDeriveKey(keyErr) ==
    /\ ht.pc = "DeriveKey"
    /\ walletIndexReturnWrites
    /\ ht' = IF wa.ret.err
             THEN CommandReplies(ht, "walletIndex", "walletIndex")
             ELSE IF keyErr
             THEN IF ht.last.cmd = "topup"
                  THEN CommandReplies(ht, "DeriveKey", "DeriveKey")
                  ELSE CommandReplies(ht, "DeriveAddress", "DeriveAddress")
             ELSE [ht EXCEPT !.pc = "announce"]
    /\ UNCHANGED nonTopupWalletVars

\* the reply sent before the quote is asked for
CommandAnnounce ==
    /\ ht.pc = "announce"
    /\ ht' = [ht EXCEPT !.pc = "BestQuote",
                        !.last.reply = IF ht.last.cmd = "topup" THEN "Executing swap"
                                       ELSE "Fetching quote"]
    /\ UNCHANGED nonTopupVars

\* swapMgr.BestQuote
CommandBestQuote(quoteErr, provider) ==
    /\ ht.pc = "BestQuote"
    /\ ht' = IF quoteErr
             THEN CommandReplies(ht, "BestQuote", "BestQuote")
             ELSE [ht EXCEPT !.pc = "insertQuote", !.last.in.provider = provider]
    /\ UNCHANGED nonTopupVars

\* insertQuote: /quote only logs an error and goes on to reply with the quote,
\* /topup replies with the error and returns
CommandInsertQuote(insertErr) ==
    /\ ht.pc = "insertQuote"
    /\ LET stored == [ht EXCEPT !.quoteRows = Append(@, ht.last.in.provider),
                                !.last.quoteID = Len(ht.quoteRows) + 1]
       IN  ht' = IF ht.last.cmd = "quote"
                 THEN IF insertErr THEN CommandReplies(ht, "insertQuote", "Quote")
                      ELSE CommandReplies(stored, "none", "Quote")
                 ELSE IF insertErr THEN CommandReplies(ht, "insertQuote", "insertQuote")
                      ELSE [stored EXCEPT !.pc = "ExecuteSwap"]
    /\ UNCHANGED nonTopupVars

\* swapMgr.ExecuteSwap on the stored quote
TopupExecuteSwap(swapErr, result) ==
    /\ ht.pc = "ExecuteSwap"
    /\ LET called == [ht EXCEPT !.last.executes = @ + 1]
       IN  ht' = IF swapErr
                 THEN CommandReplies(called, "ExecuteSwap", "ExecuteSwap")
                 ELSE [called EXCEPT !.pc = "InsertTopupWithShortID",
                                     !.last.executed = TRUE,
                                     !.last.in.TxHash = result.TxHash,
                                     !.last.in.ExternalID = result.ExternalID]
    /\ UNCHANGED nonTopupVars

\* db.InsertTopupWithShortID: an error is only logged
TopupInsertTopup(insertErr) ==
    /\ ht.pc = "InsertTopupWithShortID"
    /\ ht' = IF insertErr
             THEN CommandReplies(ht, "InsertTopupWithShortID", "Topup")
             ELSE CommandReplies(
                      [ht EXCEPT !.topupRows =
                                     Append(@, [QuoteID |-> ht.last.quoteID,
                                                Provider |-> ht.last.in.provider,
                                                TxHash |-> ht.last.in.TxHash,
                                                Status |-> "pending",
                                                ExternalID |-> ht.last.in.ExternalID])],
                      ht.last.in.fail, "Topup")
    /\ UNCHANGED nonTopupVars

\* the handler's last b.reply; then it returns
CommandReply ==
    /\ ht.pc = "reply"
    /\ ht' = [ht EXCEPT !.pc = "idle", !.msg = NoCommandMsg, !.out = "",
                        !.last.reply = ht.out]
    /\ UNCHANGED nonTopupVars

NextTopup ==
    \/ WalletStart
    \/ \E cmd \in CommandNames, msg \in WalletMsgs, parseErr \in BOOLEAN :
           CommandParse(cmd, msg, parseErr)
    \/ \E dbErr \in BOOLEAN : CommandWalletIndex(dbErr)
    \/ \E dbErr \in BOOLEAN : walletIndexAssignment(dbErr)
    \/ \E keyErr \in BOOLEAN : CommandDeriveKey(keyErr)
    \/ CommandAnnounce
    \/ \E quoteErr \in BOOLEAN, provider \in TopupProviders :
           CommandBestQuote(quoteErr, provider)
    \/ \E insertErr \in BOOLEAN : CommandInsertQuote(insertErr)
    \/ \E swapErr \in BOOLEAN, result \in SwapResults : TopupExecuteSwap(swapErr, result)
    \/ \E insertErr \in BOOLEAN : TopupInsertTopup(insertErr)
    \/ CommandReply

(***************************************************************************)
(* tracker.Tracker.Run polling topups through Manager.CheckStatus and the  *)
(* providers' CheckStatus.  The tracker is never stopped here.  At every    *)
(* poll the listing may fail, the venue may give any answer and the update *)
(* may fail.                                                               *)
(***************************************************************************)
MaxLive == 2

LiveIds == 1..MaxLive

NoLiveRow == [provider |-> "", externalID |-> "", status |-> "none"]

LiveInput(row, v) ==
    [provider |-> row.provider, txHash |-> "0xabc", externalID |-> row.externalID, venue |-> v]

LiveListPending == SelectSeq([i \in LiveIds |-> i], LAMBDA id : lv.rows[id].status = "pending")

NoLiveCheck == [status |-> "", err |-> FALSE]

LiveQuiet ==
    lv = [rows |-> [id \in LiveIds |-> NoLiveRow], pc |-> "idle", pending |-> <<>>,
          last |-> NoLiveCheck]

\* /topup stores an executed swap of provider p with the external id Execute returned
LiveInsert(id, p, externalID) ==
    /\ lv.rows[id].status = "none"
    /\ \A j \in 1..(id - 1) : lv.rows[j].status # "none"
    /\ lv' = [lv EXCEPT !.rows[id] = [provider |-> p, externalID |-> externalID,
                                      status |-> "pending"]]
    /\ UNCHANGED nonLiveVars

\* the ticker fires: pollTopups lists the pending rows; a listing error or an
\* empty list ends the poll with nothing changed
LivePollStart(listErr) ==
    /\ lv.pc = "idle"
    /\ IF listErr \/ LiveListPending = <<>>
         THEN UNCHANGED lv
         ELSE lv' = [lv EXCEPT !.pc = "polling", !.pending = LiveListPending]
    /\ UNCHANGED nonLiveVars

\* the loop goes on to the next listed row, or pollTopups returns
LiveAdvance(l) ==
    [l EXCEPT !.pending = Tail(@),
              !.pc = IF Tail(l.pending) = <<>> THEN "idle" ELSE "polling"]

\* what CheckStatus returned
LiveCheck(out) ==
    [status |-> IF out.err THEN "" ELSE out.status, err |-> out.err]

\* a "failed" return is taken for one still in progress
LivePollCheckCompletedOnly(v) ==
    /\ lv.pc = "polling"
    /\ lv.pending # <<>>
    /\ LET id  == Head(lv.pending)
           row == lv.rows[id]
           out == ProviderCheckStatus(LiveInput(row, v))
           got == [lv EXCEPT !.last = LiveCheck(out)]
       IN  /\ v \in StatusVenue(row.provider)
           /\ lv' = IF ~out.err /\ out.status \in {"completed"}
                    THEN [got EXCEPT !.pc = "updating"]
                    ELSE LiveAdvance(got)
    /\ UNCHANGED nonLiveVars

\* one iteration of pollTopups' loop: the provider's CheckStatus on the row,
\* with the row's own external id and whatever the venue answers this time
LivePollCheck(v) ==
    /\ lv.pc = "polling"
    /\ lv.pending # <<>>
    /\ LET id  == Head(lv.pending)
           row == lv.rows[id]
           out == ProviderCheckStatus(LiveInput(row, v))
           got == [lv EXCEPT !.last = LiveCheck(out)]
       IN  /\ v \in StatusVenue(row.provider)
           /\ lv' = IF ~out.err /\ out.status \in {"completed", "failed"}
                    THEN [got EXCEPT !.pc = "updating"]
                    ELSE LiveAdvance(got)
    /\ UNCHANGED nonLiveVars

\* the iteration's UpdateTopupStatus with the terminal status returned
LivePollUpdate(updateErr) ==
    /\ lv.pc = "updating"
    /\ lv' = IF updateErr THEN LiveAdvance(lv)
             ELSE [lv EXCEPT !.rows[Head(lv.pending)].status = lv.last.status,
                             !.pc = "notifying"]
    /\ UNCHANGED nonLiveVars

\* the iteration's notifyUser, which stores nothing
LivePollNotify ==
    /\ lv.pc = "notifying"
    /\ lv' = LiveAdvance(lv)
    /\ UNCHANGED nonLiveVars

LiveVenues == UNION {StatusVenue(p) : p \in StatusProviders}

LiveInsertAny == \E id \in LiveIds, p \in StatusProviders, x \in ExternalIDs : LiveInsert(id, p, x)

LivePollStartAny == \E listErr \in BOOLEAN : LivePollStart(listErr)

LivePollCheckAny == \E v \in LiveVenues : LivePollCheck(v)

LivePollUpdateAny == \E updateErr \in BOOLEAN : LivePollUpdate(updateErr)

NextLive ==
    \/ LiveInsertAny
    \/ LivePollStartAny
    \/ LivePollCheckAny
    \/ LivePollUpdateAny
    \/ LivePollNotify

(***************************************************************************)
(* server.Server: admin and dashboard logins and the two auth wrappers.    *)
(* Both session maps are read and written under sessionMu, so a login's    *)
(* insert and a wrapper's lookup are single steps; entries are never       *)
(* removed.  generateToken draws 32 random bytes: a token not drawn before.*)
(***************************************************************************)
MaxSessions == 3

SessionTokens == 1..MaxSessions

\* a cookie value a client can send: an issued token, any other value, or no cookie
NoCookie == 0

UnknownToken == MaxSessions + 1

CookieValues == SessionTokens \cup {NoCookie, UnknownToken}

AdminPassword == "admin-secret"

DashboardPasswords == {"", "dash-secret", AdminPassword}

FormPasswords == {"", "dash-secret", AdminPassword, "guess"}

hashPassword(pw) == <<"sha256", pw>>

NoRequest == [kind |-> "", admin_session |-> NoCookie, dash_session |-> NoCookie, ran |-> FALSE]

ServerQuiet ==
    sv = [started |-> FALSE, DashboardPassword |-> "", adminSessions |-> {},
          dashSessions |-> {}, adminIssued |-> {}, dashIssued |-> {}, last |-> NoRequest]

ServerStart ==
    /\ ~sv.started
    /\ \E dp \in DashboardPasswords :
           sv' = [sv EXCEPT !.started = TRUE, !.DashboardPassword = dp]
    /\ UNCHANGED nonServerVars

\* POST /admin/login
handleAdminLogin(pw, token) ==
    /\ sv.started
    /\ token \in SessionTokens \ (sv.adminIssued \cup sv.dashIssued)
    /\ IF hashPassword(pw) # hashPassword(AdminPassword)
         THEN sv' = [sv EXCEPT !.last = [NoRequest EXCEPT !.kind = "adminLogin"]]
         ELSE sv' = [sv EXCEPT !.adminSessions = @ \cup {token},
                               !.adminIssued = @ \cup {token},
                               !.last = [NoRequest EXCEPT !.kind = "adminLogin",
                                                          !.admin_session = token,
                                                          !.ran = TRUE]]
    /\ UNCHANGED nonServerVars

\* POST /login
handleDashLogin(pw, token) ==
    /\ sv.started
    /\ token \in SessionTokens \ (sv.adminIssued \cup sv.dashIssued)
    /\ IF hashPassword(pw) # hashPassword(sv.DashboardPassword)
         THEN sv' = [sv EXCEPT !.last = [NoRequest EXCEPT !.kind = "dashLogin"]]
         ELSE sv' = [sv EXCEPT !.dashSessions = @ \cup {token},
                               !.dashIssued = @ \cup {token},
                               !.last = [NoRequest EXCEPT !.kind = "dashLogin",
                                                          !.dash_session = token,
                                                          !.ran = TRUE]]
    /\ UNCHANGED nonServerVars

\* one map for both kinds of session
adminAllowedSharedMap(cookie) ==
    /\ cookie # NoCookie
    /\ cookie \in sv.adminSessions \cup sv.dashSessions

\* withAdminAuth: the admin_session cookie must be a key of adminSessions
adminAllowed(cookie) ==
    /\ cookie # NoCookie
    /\ cookie \in sv.adminSessions

\* withDashAuth: open without a dashboard password, else the dash_session cookie
dashAllowed(cookie) ==
    \/ sv.DashboardPassword = ""
    \/ /\ cookie # NoCookie
       /\ cookie \in sv.dashSessions

\* a request to a route wrapped in withAdminAuth
AdminRequest(adminCookie, dashCookie) ==
    /\ sv.started
    /\ sv' = [sv EXCEPT !.last = [kind |-> "admin", admin_session |-> adminCookie,
                                  dash_session |-> dashCookie,
                                  ran |-> adminAllowed(adminCookie)]]
    /\ UNCHANGED nonServerVars

\* a request to a route wrapped in withDashAuth
DashRequest(adminCookie, dashCookie) ==
    /\ sv.started
    /\ sv' = [sv EXCEPT !.last = [kind |-> "dash", admin_session |-> adminCookie,
                                  dash_session |-> dashCookie,
                                  ran |-> dashAllowed(dashCookie)]]
    /\ UNCHANGED nonServerVars

NextServer ==
    \/ ServerStart
    \/ \E pw \in FormPasswords, t \in SessionTokens : handleAdminLogin(pw, t)
    \/ \E pw \in FormPasswords, t \in SessionTokens : handleDashLogin(pw, t)
    \/ \E a \in CookieValues, d \in CookieValues : AdminRequest(a, d)
    \/ \E a \in CookieValues, d \in CookieValues : DashRequest(a, d)

NextCache ==
    \/ \E c \in Callers, k \in Keys : Call(c, k)
    \/ \E c \in Callers : RLock(c)
    \/ \E c \in Callers : FirstCheck(c)
    \/ \E c \in Callers : Lock(c)
    \/ \E c \in Callers : DoubleCheck(c)
    \/ \E c \in Callers, v \in FetchValues : FetchOk(c, v)
    \/ \E c \in Callers : FetchErr(c)
    \/ Tick


(***************************************************************************)
(* Specifications: one per component, the other components at rest         *)
(***************************************************************************)
\* the components added after the first four, at rest
OthersQuiet == StatusQuiet /\ AssetQuiet /\ MatchQuiet /\ ResolveQuiet /\ PoolQuiet /\ TokenQuiet /\ ExecQuiet /\ NoQuotesQuiet /\ ParseQuiet /\ MatcherQuiet /\ RefillQuiet /\ CowQuiet /\ WalletQuiet /\ AuthQuiet /\ TopupQuiet /\ LiveQuiet /\ ServerQuiet

InitCache == CacheInit /\ MgrQuiet /\ QuoteQuiet /\ TrackerQuiet /\ OthersQuiet

SpecCache == InitCache /\ [][NextCache]_vars

InitManager == MgrInit /\ CacheQuiet /\ QuoteQuiet /\ TrackerQuiet /\ OthersQuiet

SpecManager == InitManager /\ [][NextManager]_vars

InitQuote == QuoteQuiet /\ CacheQuiet /\ MgrQuiet /\ TrackerQuiet /\ OthersQuiet

SpecQuote == InitQuote /\ [][NextQuote]_vars

InitTracker == TrackerInit /\ CacheQuiet /\ MgrQuiet /\ QuoteQuiet /\ OthersQuiet

SpecTracker == InitTracker /\ [][NextTracker]_vars

FirstFourQuiet == CacheQuiet /\ MgrQuiet /\ QuoteQuiet /\ TrackerQuiet

InitStatus == FirstFourQuiet /\ OthersQuiet

SpecStatus == InitStatus /\ [][NextStatus]_vars

InitAsset == FirstFourQuiet /\ OthersQuiet

SpecAsset == InitAsset /\ [][NextAsset]_vars

InitMatch == FirstFourQuiet /\ OthersQuiet

SpecMatch == InitMatch /\ [][NextMatch]_vars

InitResolve == FirstFourQuiet /\ OthersQuiet

SpecResolve == InitResolve /\ [][NextResolve]_vars

InitPools == FirstFourQuiet /\ OthersQuiet

SpecPools == InitPools /\ [][NextPools]_vars

InitTokens == FirstFourQuiet /\ OthersQuiet

SpecTokens == InitTokens /\ [][NextTokens]_vars

InitExecute == FirstFourQuiet /\ OthersQuiet

SpecExecute == InitExecute /\ [][NextExecute]_vars

InitNoQuotes == FirstFourQuiet /\ OthersQuiet

SpecNoQuotes == InitNoQuotes /\ [][NextNoQuotes]_vars

InitParse == FirstFourQuiet /\ OthersQuiet

SpecParse == InitParse /\ [][NextParse]_vars

InitMatcher == FirstFourQuiet /\ OthersQuiet

SpecMatcher == InitMatcher /\ [][NextMatcher]_vars

InitRefills == FirstFourQuiet /\ OthersQuiet

SpecRefills == InitRefills /\ [][NextRefills]_vars

InitCow == FirstFourQuiet /\ OthersQuiet

SpecCow == InitCow /\ [][NextCow]_vars

InitWallet == FirstFourQuiet /\ OthersQuiet

SpecWallet == InitWallet /\ [][NextWallet]_vars

InitAuth == FirstFourQuiet /\ OthersQuiet

SpecAuth == InitAuth /\ [][NextAuth]_vars

InitTopup == FirstFourQuiet /\ OthersQuiet

SpecTopup == InitTopup /\ [][NextTopup]_vars

InitLive == FirstFourQuiet /\ OthersQuiet

\* Run polls on every tick of its 15 s ticker and pollTopups' loop runs to its end
SpecLive == InitLive /\ [][NextLive]_vars /\ WF_vars(LivePollStartAny) /\ WF_vars(LivePollCheckAny)
                /\ WF_vars(LivePollUpdateAny) /\ WF_vars(LivePollNotify)

InitServer == FirstFourQuiet /\ OthersQuiet

SpecServer == InitServer /\ [][NextServer]_vars

(***************************************************************************)
(* Properties of swaps.Manager                                             *)
(***************************************************************************)

\* C1: whenever BestQuote succeeds, the returned quote is one of the quotes
\* the queried providers returned in this call and no returned quote has a
\* larger ExpectedOutputRaw, whatever the registration order.
C1_BestIsLargest ==
    (mpc = "returned" /\ mret.op = "BestQuote" /\ mret.err = "nil") =>
        /\ mret.quote \in mseen
        /\ \A q \in mseen : mret.quote.ExpectedOutputRaw >= q.ExpectedOutputRaw

\* three providers returned 100, 250 and 180 in registration order and the 250 quote came back
C1_Witness ==
    /\ mpc = "returned" /\ mret.op = "BestQuote" /\ mret.err = "nil"
    /\ Len(registry) = 3
    /\ {<<q.from, q.ExpectedOutputRaw>> : q \in mseen} = {<<1, 100>>, <<2, 250>>, <<3, 180>>}
    /\ mret.quote.ExpectedOutputRaw = 250
    /\ mret.quote.from = 2

\* registry positions an observer expects BestQuote to query under the hint
C2_Expected ==
    {i \in 1..Len(registry) :
        \/ mhint.Type = ""
        \/ mhint.Type = "provider" /\ registry[i] = mhint.Value
        \/ mhint.Type = "category" /\ Category(registry[i]) = mhint.Value}

\* C2: a provider whose Quote fails is only left out of the comparison:
\* when BestQuote returns after the hint filter, every provider passing the
\* filter had Quote called exactly once, whether earlier providers failed or
\* not, and the call succeeds as soon as any provider returned any quote.
C2_ErrorsAbsorbed ==
    /\ \A i \in 1..Len(registry) :
          Cardinality({k \in 1..Len(mcalls) : mcalls[k].method = "Quote" /\ mcalls[k].idx = i}) <= 1
    /\ (mpc = "returned" /\ mret.op = "BestQuote" /\ mret.err # "hint") =>
          /\ \A i \in C2_Expected :
                Cardinality({k \in 1..Len(mcalls) : mcalls[k].method = "Quote" /\ mcalls[k].idx = i}) = 1
          /\ \A k \in 1..Len(mcalls) : mcalls[k].idx \in C2_Expected
          /\ (mseen # {} => mret.err = "nil")

\* the first and the third provider failed, the second returned a quote, and BestQuote succeeded
C2_Witness ==
    /\ mpc = "returned" /\ mret.op = "BestQuote" /\ mret.err = "nil"
    /\ Len(mcalls) = 3
    /\ mcalls[1].err /\ ~mcalls[2].err /\ mcalls[3].err
    /\ mret.quote.from = mcalls[2].idx

\* C3: ExecuteSwap and CheckStatus call the provider method exactly once, on
\* a provider whose name is the requested one and on no other; when no
\* registered provider has that name they return an error and call nothing.
C3_DispatchByName ==
    (mpc = "returned" /\ mret.op \in {"ExecuteSwap", "CheckStatus"}) =>
        IF \E i \in 1..Len(registry) : registry[i] = mret.name
          THEN /\ Len(mcalls) = 1
               /\ mcalls[1].method = (IF mret.op = "ExecuteSwap" THEN "Execute" ELSE "CheckStatus")
               /\ registry[mcalls[1].idx] = mret.name
               /\ mret.err # "notfound"
          ELSE /\ mcalls = <<>>
               /\ mret.err = "notfound"

\* ExecuteSwap dispatched to the second of several providers, and only to it
C3_Witness ==
    /\ mpc = "returned" /\ mret.op = "ExecuteSwap" /\ mret.err = "nil"
    /\ Len(registry) >= 2
    /\ Len(mcalls) = 1
    /\ mcalls[1].idx = 2
    /\ registry[2] = mret.name

(***************************************************************************)
(* Properties of Provider.Quote                                            *)
(***************************************************************************)

\* C4: a provider returns a quote for a source chain only if the sender's
\* stablecoin balance on that chain was read and is at least the USD amount
\* x 10^6; an insufficient chain only drops out, so with one sufficient and
\* one insufficient chain exactly one quote, for the sufficient chain, is
\* returned.
C4_BalanceGating ==
    pq.phase = "returned" =>
        /\ \A k \in 1..Len(pq.quotes) :
              /\ ~pq.in.bal[pq.quotes[k].FromChain].err
              /\ pq.in.bal[pq.quotes[k].FromChain].val >= pq.in.usd * 1000000
        /\ \A a \in Chains, b \in Chains :
              (/\ pq.in.supported
               /\ pq.in.rpc[a] /\ pq.in.rpc[b]
               /\ ~pq.in.bal[a].err /\ pq.in.bal[a].val >= pq.in.usd * 1000000
               /\ ~pq.in.venue[a].err /\ pq.in.venue[a].addr
               /\ ~pq.in.bal[b].err /\ pq.in.bal[b].val < pq.in.usd * 1000000)
              => (pq.err = "nil" /\ Len(pq.quotes) = 1 /\ pq.quotes[1].FromChain = a)

\* value of a string of decimal digits
RECURSIVE C6_Value(_)
C6_Value(ds) == IF ds = <<>> THEN 0 ELSE 10 * C6_Value(SubSeq(ds, 1, Len(ds) - 1)) + DigitVal(ds[Len(ds)])

\* the venue's quoted output in whole units of the target asset, times
\* 10^8, truncated: the router venue reports integers in 1e8 units, the
\* custodial venue decimal strings in whole units, the intent network
\* integers in the token's smallest unit (10^-decimals of a whole unit)
C6_Scaled(in, chain) ==
    LET a == in.venue[chain].amount
        dot == DotIndex(a)
        int == IF dot = 0 THEN a ELSE SubSeq(a, 1, dot - 1)
        frac == IF dot = 0 THEN <<>> ELSE SubSeq(a, dot + 1, Len(a))
    IN CASE in.provider = "thorchain" -> C6_Value(a)
         [] in.provider = "nearintents" -> (C6_Value(a) * Pow10(8 - in.decimals))
         [] OTHER ->
              C6_Value(int) * Pow10(8)
              + (IF Len(frac) <= 8 THEN C6_Value(frac) * Pow10(8 - Len(frac))
                                   ELSE C6_Value(frac) \div Pow10(Len(frac) - 8))

\* C6: every quote's ExpectedOutputRaw is the venue's quoted output amount
\* in whole units of the target asset times 10^8, truncated, whatever the
\* target asset's decimals.
C6_RawIsScaledOutput ==
    pq.phase = "returned" =>
        \A k \in 1..Len(pq.quotes) :
            pq.quotes[k].ExpectedOutputRaw = C6_Scaled(pq.in, pq.quotes[k].FromChain)

(***************************************************************************)
(* Properties of the tracker                                               *)
(***************************************************************************)

\* C5: a topup's stored status only moves from pending to completed or to
\* failed; once completed or failed it never changes again and the provider
\* is never asked about that topup again.
C5_TerminalIsFinal ==
    [][\A id \in TopupIds :
          /\ (topups[id] \in {"completed", "failed"} =>
                 (topups'[id] = topups[id] /\ tasks'[id] = tasks[id]))
          /\ (topups[id] = "pending" => topups'[id] \in {"pending", "completed", "failed"})
          /\ (topups[id] = "none" => (topups'[id] \in {"none", "pending"} /\ tasks'[id] = 0))]_vars

\* a later poll runs while an earlier topup is already completed: it lists only the pending one
C5_Witness ==
    /\ topups[1] = "completed"
    /\ topups[2] = "pending"
    /\ tasks[1] >= 1
    /\ tpolls >= 2
    /\ tpc = "polling"
    /\ tpending = <<2>>

(***************************************************************************)
(* Properties of resolver.Cache                                            *)
(***************************************************************************)

\* C7 as stated: the cache lock is not held while the fetch function runs.
C7_FetchOutsideLock ==
    \A c \in Callers : cpc[c] = "fetching" => writer # c

\* C7 amended: GetOrFetch holds the write lock for the whole time its fetch
\* function runs; meanwhile no other caller is inside a read or write section
\* or running a fetch of its own, so a second caller that missed on the same
\* key waits for the running fetch to complete.
C7_FetchUnderLock ==
    \A c \in Callers : cpc[c] = "fetching" =>
        /\ writer = c
        /\ readers = {}
        /\ \A d \in Callers \ {c} : cpc[d] \notin {"rlocked", "locked", "fetching"}

\* a caller that missed waits for the lock while another caller's fetch of the same key runs
C7_Witness ==
    \E c \in Callers, d \in Callers :
        /\ c # d
        /\ cpc[c] = "fetching"
        /\ cpc[d] = "wantlock"
        /\ ckey[c] = ckey[d]

\* C8: at most one fetch is in flight at any time, a fetch is only ever in
\* flight for a key that has no live entry, and a caller that did not fetch
\* itself returns the value the table held for its key, so callers that miss
\* together on one key cause one fetch and all return its value.
C8_SingleFetch ==
    /\ Cardinality({c \in Callers : cpc[c] = "fetching"}) <= 1
    /\ \A c \in Callers : cpc[c] = "fetching" =>
          (~entries[ckey[c]].ok \/ now >= entries[ckey[c]].fetchedAt + TTL)
    /\ \A c \in Callers : (cpc[c] = "done" /\ chit[c] # "none") =>
          /\ ~cfetched[c]
          /\ cres[c] = [value |-> cobs[c].entry.value, err |-> "nil"]

\* two callers missed on the same key; one fetched, the other returned that value from its double-check
C8_Witness ==
    \E c \in Callers, d \in Callers :
        /\ c # d /\ ckey[c] = ckey[d]
        /\ cpc[c] = "done" /\ cpc[d] = "done"
        /\ cfetched[c] /\ cres[c].err = "nil"
        /\ ~cfetched[d] /\ chit[d] = "double"
        /\ ~Live(tblBefore[ckey[c]], cobs[c].at)
        /\ cres[d] = cres[c]

\* C9: a check made at a time strictly before fetchedAt + ttl of the stored
\* entry is a hit that returns the stored value without invoking fetch; a
\* check made at or after fetchedAt + ttl (or with no entry) is a miss, and
\* fetch is invoked only after such a miss.
C9_Freshness ==
    \A c \in Callers :
        /\ (cpc[c] = "done" /\ chit[c] # "none") =>
              /\ cobs[c].entry.ok
              /\ cobs[c].at < cobs[c].entry.fetchedAt + TTL
              /\ cres[c].value = cobs[c].entry.value
              /\ ~cfetched[c]
        /\ (cpc[c] \in {"wantlock", "fetching"} \/ (cpc[c] = "done" /\ chit[c] = "none")) =>
              (~cobs[c].entry.ok \/ cobs[c].at >= cobs[c].entry.fetchedAt + TTL)
        /\ cfetched[c] => chit[c] = "none"

\* one caller was served from the cache one tick before expiry, another fetches again exactly at expiry
C9_Witness ==
    \E c \in Callers, d \in Callers :
        /\ cpc[c] = "done" /\ chit[c] = "first"
        /\ cobs[c].at = cobs[c].entry.fetchedAt + TTL - 1
        /\ cpc[d] = "fetching"
        /\ cobs[d].entry.ok
        /\ cobs[d].at = cobs[d].entry.fetchedAt + TTL

\* C10: when the fetch function returns an error, GetOrFetch returns that
\* error with the zero value and the entry table is exactly what it was when
\* the fetch was invoked: nothing is stored, an existing entry keeps its
\* value and fetch time, other keys are untouched.
C10_FailedFetchKeepsTable ==
    [][\A c \in Callers :
          (cpc[c] = "fetching" /\ cpc'[c] = "done" /\ cres'[c].err # "nil") =>
              /\ cres'[c] = [value |-> ZeroValue, err |-> "fetch"]
              /\ entries' = entries
              /\ entries' = tblBefore]_vars

\* a fetch failed for a key that still holds its earlier (expired) entry
C10_Witness ==
    \E c \in Callers :
        /\ cpc[c] = "done"
        /\ cres[c].err = "fetch"
        /\ entries[ckey[c]].ok
        /\ entries[ckey[c]].value \in FetchValues
        /\ entries = tblBefore

(***************************************************************************)
(* Properties of the routing hint                                          *)
(***************************************************************************)

\* the running BestQuote has a provider or category hint that no registered provider matches
C11_NoMatch ==
    /\ mhint.Type \in {"provider", "category"}
    /\ \A i \in 1..Len(registry) :
          /\ mhint.Type = "provider" => registry[i] # mhint.Value
          /\ mhint.Type = "category" => Category(registry[i]) # mhint.Value

\* C11: BestQuote with a provider or category hint whose value matches no
\* registered provider never enters the provider loop and returns the hint
\* error with no provider's Quote called, no quote received and no balance
\* lookup made by the manager.
C11_HintMismatchFailsFirst ==
    C11_NoMatch =>
        /\ mpc # "quoting"
        /\ (mpc = "returned" /\ mret.op = "BestQuote") =>
              /\ mret.err = "hint"
              /\ mcalls = <<>>
              /\ mseen = {}
              /\ mlookups = 0

\* three providers are registered, a category hint names a category none of them has, and the call failed
C11_Witness ==
    /\ mpc = "returned" /\ mret.op = "BestQuote" /\ mret.err = "hint"
    /\ Len(registry) = 3
    /\ mhint.Type = "category" /\ mhint.Value \in Categories
    /\ C11_NoMatch
    /\ mcalls = <<>> /\ mlookups = 0

\* C12: under a provider (category) hint Quote is called only on providers
\* whose Name (Category) equals the hint value and a returned quote comes
\* from such a provider; under an empty hint type every registered provider
\* is queried.
C12_OnlyHintedProviders ==
    /\ \A k \in 1..Len(mcalls) :
          mcalls[k].method = "Quote" =>
              /\ mhint.Type = "provider" => registry[mcalls[k].idx] = mhint.Value
              /\ mhint.Type = "category" => Category(registry[mcalls[k].idx]) = mhint.Value
    /\ (mpc = "returned" /\ mret.op = "BestQuote" /\ mret.err = "nil") =>
              /\ mhint.Type = "provider" => mret.quote.Provider = mhint.Value
              /\ mhint.Type = "category" => Category(mret.quote.Provider) = mhint.Value
    /\ (mpc = "returned" /\ mret.op = "BestQuote" /\ mhint.Type = "") =>
              {mcalls[k].idx : k \in 1..Len(mcalls)} = 1..Len(registry)

\* a dex hint with a private provider registered between two dex providers: only the two were queried
C12_Witness ==
    /\ mpc = "returned" /\ mret.op = "BestQuote" /\ mret.err = "nil"
    /\ mhint = [Type |-> "category", Value |-> "dex"]
    /\ Len(registry) = 3 /\ Category(registry[2]) = "private"
    /\ Len(mcalls) = 2
    /\ mcalls[1].idx = 1 /\ mcalls[2].idx = 3

(***************************************************************************)
(* Properties of Provider.CheckStatus                                      *)
(***************************************************************************)

\* C13: whenever a provider's CheckStatus returns without error, the status
\* is one of "pending", "completed", "failed", whatever the venue answered
\* and whatever txHash and externalID were passed.
C13_StatusDomain ==
    (ps.phase = "returned" /\ ~ps.out.err) =>
        ps.out.status \in {"pending", "completed", "failed"}

\* simpleswap was asked and answered with a status word the provider does not know; pending came back
C13_Witness ==
    /\ ps.phase = "returned" /\ ~ps.out.err /\ ps.out.asked
    /\ ps.in.provider = "simpleswap"
    /\ ps.in.venue.text = "FINISHED"
    /\ ps.out.status = "pending"

(***************************************************************************)
(* Properties of ParseAsset and Asset.String                               *)
(***************************************************************************)

\* C14: ParseAsset accepts an input whatever its letter case, the asset it
\* returns has an uppercase chain, an uppercase symbol and a lowercase
\* contract address, and the input written all in upper case or all in lower
\* case is accepted too and renders to the same string.
C14_CaseInsensitive ==
    (pa.phase = "returned" /\ pa.op = "parse" /\ ~pa.err) =>
        /\ pa.asset.Chain = ToUpper(pa.asset.Chain)
        /\ pa.asset.Symbol = ToUpper(pa.asset.Symbol)
        /\ pa.asset.ContractAddress = ToLower(pa.asset.ContractAddress)
        /\ \A t \in {ToUpper(pa.in), ToLower(pa.in)} :
              /\ ~ParseAsset(t).err
              /\ AssetString(ParseAsset(t).asset) = pa.str

\* C15: every asset ParseAsset returns without error has a non-empty Chain
\* and a non-empty Symbol.
C15_ChainSymbolNonEmpty ==
    (pa.phase = "returned" /\ pa.op = "parse" /\ ~pa.err) =>
        /\ pa.asset.Chain # <<>>
        /\ pa.asset.Symbol # <<>>

\* C16: for every valid asset a, ParseAsset(a.String()) succeeds and returns
\* a, so rendering the parsed asset gives a.String() again.
C16_RoundTrip ==
    (pa.phase = "returned" /\ pa.op = "roundtrip") =>
        /\ ~pa.err
        /\ pa.asset = pa.given
        /\ pa.str = pa.in

\* an asset whose symbol holds a "." and whose contract holds a "-" went through the round trip
C16_Witness ==
    /\ pa.phase = "returned" /\ pa.op = "roundtrip" /\ ~pa.err
    /\ \E i \in 1..Len(pa.given.Symbol) : pa.given.Symbol[i] = "."
    /\ \E i \in 1..Len(pa.given.ContractAddress) : pa.given.ContractAddress[i] = "-"
    /\ pa.asset = pa.given

(***************************************************************************)
(* Properties of bestMatch                                                 *)
(***************************************************************************)

\* positions of the coins whose symbol equals the query case-insensitively
C17_Matching == {i \in 1..Len(bm.coins) : ToLower(bm.coins[i].Symbol) = ToLower(bm.symbol)}
\* those of them that carry a rank
C17_Ranked == {i \in C17_Matching : bm.coins[i].Rank.set}
C17_Min(S) == CHOOSE i \in S : \A j \in S : i <= j
\* the position the rule picks: 0 for nothing
C17_Expected ==
    IF C17_Matching = {} THEN 0
    ELSE IF C17_Ranked # {}
      THEN C17_Min({i \in C17_Ranked :
                      \A j \in C17_Ranked : bm.coins[i].Rank.val <= bm.coins[j].Rank.val})
    ELSE C17_Min(C17_Matching)

\* C17: bestMatch returns the matching coin with the smallest rank, the
\* earliest of them among equal ranks; a coin without a rank only when no
\* matching coin has one, then the earliest matching coin; and nothing
\* exactly when no coin matches the symbol.
C17_BestMatchByRank ==
    bm.phase = "returned" => bm.best = C17_Expected

(***************************************************************************)
(* Properties of Resolver.Resolve                                          *)
(***************************************************************************)

\* the thorchain entries of the returned resolution
C18_PoolMatches ==
    SelectSeq(rs.out.res.Providers, LAMBDA m : m.Provider = "thorchain")

\* C18: the native (chain, symbol) attempt is made only when the caller gave
\* no contract address and the platform map is empty; when the caller or
\* the catalog provides a contract address, the pool matched has a contract.
C18_NativeOnlyWithoutContracts ==
    rs.phase = "returned" =>
        /\ (\E k \in 1..Len(rs.out.attempts) : rs.out.attempts[k].kind = "native") =>
              (rs.in.asset.ContractAddress = <<>> /\ rs.in.platforms = <<>>)
        /\ (rs.in.asset.ContractAddress # <<>> \/ rs.in.platforms # <<>>) =>
              \A k \in 1..Len(C18_PoolMatches) : C18_PoolMatches[k].AssetID.Contract # <<>>

\* rank of an attempt in the order caller, catalog, native
C19_Order(kind) == CASE kind = "caller" -> 1 [] kind = "catalog" -> 2 [] OTHER -> 3

\* C19: a Resolve makes its pool attempts in the order caller's pair,
\* catalog pairs, native; only the last attempt made can have matched, so
\* nothing is attempted after a match; and the resolution holds at most one
\* thorchain match, the pool of that attempt.
C19_FirstMatchWins ==
    rs.phase = "returned" =>
        LET at == rs.out.attempts
        IN /\ \A k \in 1..Len(at), l \in 1..Len(at) :
                 k < l => C19_Order(at[k].kind) <= C19_Order(at[l].kind)
           /\ \A k \in 1..Len(at) : at[k].found => k = Len(at)
           /\ rs.out.returned =>
                 /\ Len(C18_PoolMatches) <= 1
                 /\ Len(C18_PoolMatches) = 1 <=>
                       (at # <<>> /\ at[Len(at)].found)
                 /\ Len(C18_PoolMatches) = 1 =>
                       C18_PoolMatches[1].AssetID = at[Len(at)].pool

\* the caller's pair missed, the first catalog pair matched, a second catalog pair was left untried
C19_Witness ==
    /\ rs.phase = "returned" /\ rs.out.returned
    /\ Len(rs.in.platforms) = 2
    /\ Len(rs.out.attempts) = 2
    /\ rs.out.attempts[1].kind = "caller" /\ ~rs.out.attempts[1].found
    /\ rs.out.attempts[2].kind = "catalog" /\ rs.out.attempts[2].found
    /\ Len(C18_PoolMatches) = 1

\* C20: Resolve hands out a Resolution only with at least one provider
\* match; when no matching step found anything it returns an error and no
\* Resolution.
C20_NoEmptyResolution ==
    rs.phase = "returned" =>
        /\ rs.out.returned => (rs.out.err = "nil" /\ Len(rs.out.res.Providers) >= 1)
        /\ ~rs.out.returned => (rs.out.err # "nil" /\ rs.out.res = NoResolution)
        /\ (/\ ~rs.in.searchErr /\ ~rs.in.platformsErr
            /\ ~Matched(rs.out.attempts)
            /\ rs.in.near # "found"
            /\ rs.in.simpleswap.keys = {}
            /\ rs.in.houdini.keys = {}) => ~rs.out.returned

\* the coin was found, three pool attempts and the other matchers found nothing: an error came back
C20_Witness ==
    /\ rs.phase = "returned" /\ ~rs.out.returned /\ rs.out.err = "unsupported"
    /\ Len(rs.out.attempts) = 3
    /\ rs.in.pools # <<>>

(***************************************************************************)
(* Properties of poolMatcher                                               *)
(***************************************************************************)

\* C21: a pool matchPool returns is the asset of a catalog entry whose status
\* is "Available": entries with any other status are dropped when the catalog
\* is downloaded and are never handed out.
C21_OnlyAvailablePools ==
    (pm.phase = "returned" /\ pm.out.found) =>
        /\ ~pm.out.err
        /\ \E i \in 1..Len(pm.catalog) :
              pm.catalog[i].Asset = pm.out.raw /\ pm.catalog[i].Status = "Available"

\* a staged pool of the chain comes first in the catalog and the available one after it is returned
C21_Witness ==
    /\ pm.phase = "returned" /\ pm.out.found
    /\ pm.catalog = <<[Asset |-> <<"a", ".", "A">>, Status |-> "Staged"],
                      [Asset |-> <<"A", ".", "A">>, Status |-> "Available"]>>
    /\ pm.q = [chain |-> <<"A">>, symbol |-> <<"a">>, contract |-> <<>>]
    /\ pm.out.raw = <<"A", ".", "A">>

(***************************************************************************)
(* Properties of nearMatcher                                               *)
(***************************************************************************)

\* the venue's blockchain name for the chain asked for ("" without a mapping)
C22_Want == chainToNearBlockchain(ToUpper(nt.q.chain))

\* positions of the tokens with the symbol asked for whose blockchain is
\* spelled exactly as the mapped name
C22_EligibleExact ==
    {i \in 1..Len(nt.tokens) :
        /\ EqualFold(nt.tokens[i].Symbol, nt.q.symbol)
        /\ C22_Want # <<>> => nt.tokens[i].Blockchain = C22_Want}

\* positions of the tokens with the symbol asked for whose blockchain is the
\* mapped name in any letter case
C22_Eligible ==
    {i \in 1..Len(nt.tokens) :
        /\ EqualFold(nt.tokens[i].Symbol, nt.q.symbol)
        /\ C22_Want # <<>> => EqualFold(nt.tokens[i].Blockchain, C22_Want)}

\* the first position of the largest price among the positions in S
C22_FirstMax(S) ==
    CHOOSE i \in S :
        /\ \A j \in S : nt.tokens[j].Price <= nt.tokens[i].Price
        /\ \A j \in S : nt.tokens[j].Price = nt.tokens[i].Price => i <= j

\* C22 as stated: matchToken returns the first token of the largest price
\* among the tokens with the symbol (case-insensitive) whose blockchain
\* equals the mapped name, and reports not-found exactly when there is none.
C22_ExactBlockchain ==
    (nt.phase = "returned" /\ ~nt.out.err) =>
        /\ nt.out.found <=> C22_EligibleExact # {}
        /\ nt.out.found => nt.out.assetId = C22_FirstMax(C22_EligibleExact)

\* C22, amended: the blockchain is compared case-insensitively too; among
\* those tokens the first one of the largest price is returned, and
\* not-found is reported exactly when there is none.
C22_HighestPriceFirst ==
    (nt.phase = "returned" /\ ~nt.out.err) =>
        /\ nt.out.found <=> C22_Eligible # {}
        /\ nt.out.found => nt.out.assetId = C22_FirstMax(C22_Eligible)

\* three tokens of the symbol on the mapped blockchain priced 1, 2, 2: the second is returned
C22_Witness ==
    /\ nt.phase = "returned" /\ nt.out.found
    /\ nt.q.chain = <<"a">>
    /\ Len(nt.tokens) = 3
    /\ \A i \in 1..3 : nt.tokens[i].Symbol = <<"A">> /\ nt.tokens[i].Blockchain = <<"a">>
    /\ nt.tokens[1].Price = 1 /\ nt.tokens[2].Price = 2 /\ nt.tokens[3].Price = 2
    /\ nt.out.assetId = 2

(***************************************************************************)
(* Properties of Provider.Execute                                          *)
(***************************************************************************)

\* positions in the call record of the calls of this kind
C23_Calls(kind) == {k \in 1..Len(ex.calls) : ex.calls[k].kind = kind}

\* C23: the thorchain Execute sends the deposit only after the approval for
\* the quote's input amount was sent, waited for and mined successfully; an
\* Execute that returns an error has sent no deposit; a successful Execute
\* returns the deposit's hash and has never waited for the deposit.
C23_DepositAfterMinedApproval ==
    ex.provider = "thorchain" =>
        /\ \A d \in C23_Calls("deposit") :
              /\ ex.approveTx = "success"
              /\ \E a \in 1..(d - 1), w \in 1..(d - 1) :
                    /\ a < w
                    /\ ex.calls[a] = ExecEvent("approve", "router", ex.quote.InputAmount)
                    /\ ex.calls[w] = ExecEvent("waitmined", "approveTx", 0)
        /\ (ex.pc = "returned" /\ ex.ret.err # "nil") => C23_Calls("deposit") = {}
        /\ (ex.pc = "returned" /\ ex.ret.err = "nil") =>
              /\ Cardinality(C23_Calls("deposit")) = 1
              /\ ex.ret.TxHash = "depositTx"
              /\ ExecEvent("waitmined", "depositTx", 0) \notin {ex.calls[k] : k \in 1..Len(ex.calls)}

\* Execute returned the deposit's hash while the deposit is still unmined
C23_Witness ==
    /\ ex.provider = "thorchain" /\ ex.pc = "returned" /\ ex.ret.err = "nil"
    /\ ex.calls = <<ExecEvent("approve", "router", 2), ExecEvent("waitmined", "approveTx", 0),
                    ExecEvent("deposit", "router", 2)>>
    /\ ex.approveTx = "success" /\ ex.depositTx = "pending"

\* C24: the simpleswap and houdini Execute transfer tokens only after
\* CreateExchange succeeded, only to the deposit address of the exchange it
\* returned and only the quote's input amount; without a created exchange
\* nothing is transferred; a successful Execute returns the id of that
\* exchange as ExternalID.
C24_TransferAfterCreate ==
    ex.provider \in {"simpleswap", "houdini"} =>
        /\ \A t \in C23_Calls("transfer") :
              /\ \E c \in 1..(t - 1) : ex.calls[c] = ExecEvent("create", ex.exchange.ID, 0)
              /\ ex.exchange \in Exchanges
              /\ ex.calls[t] = ExecEvent("transfer", HexToAddress(ex.exchange.Address),
                                         ex.quote.InputAmount)
        /\ C23_Calls("create") = {} => C23_Calls("transfer") = {}
        /\ Cardinality(C23_Calls("create")) <= 1
        /\ (ex.pc = "returned" /\ ex.ret.err = "nil") =>
              /\ Cardinality(C23_Calls("create")) = 1
              /\ Cardinality(C23_Calls("transfer")) = 1
              /\ ex.ret.ExternalID = ex.exchange.ID
              /\ ex.ret.TxHash = "transferTx"

\* exchange x2 with deposit address d1 was created, 1 unit went to d1 and x2 came back
C24_Witness ==
    /\ ex.provider = "simpleswap" /\ ex.pc = "returned" /\ ex.ret.err = "nil"
    /\ ex.calls = <<ExecEvent("create", "x2", 0), ExecEvent("transfer", "d1", 1),
                    ExecEvent("waitmined", "transferTx", 0)>>
    /\ ex.ret.ExternalID = "x2"

\* C25: once the nearintents Execute has sent the transfer it only notifies
\* the venue and returns: it never waits for a receipt, and it returns
\* success with the transfer's hash and the deposit address as ExternalID
\* whether the notification failed or not and whatever became of the
\* transfer.
C25_NotifyIsBestEffort ==
    (ex.provider = "nearintents" /\ C23_Calls("transfer") # {}) =>
        /\ ex.pc \in {"notify", "returned"}
        /\ C23_Calls("waitmined") = {}
        /\ ex.calls[1] = ExecEvent("transfer", HexToAddress(ex.quote.depositAddr),
                                   ex.quote.InputAmount)
        /\ ex.pc = "returned" =>
              /\ ex.ret = [err |-> "nil", TxHash |-> "transferTx",
                           ExternalID |-> ex.quote.depositAddr]
              /\ Cardinality(C23_Calls("notify")) = 1

\* the notification failed, the transfer is still unmined, and Execute returned success
C25_Witness ==
    /\ ex.provider = "nearintents" /\ ex.pc = "returned"
    /\ ex.calls = <<ExecEvent("transfer", "d1", 2), ExecEvent("notify", "failed", 0)>>
    /\ ex.transferTx = "pending"
    /\ ex.ret = [err |-> "nil", TxHash |-> "transferTx", ExternalID |-> "d1"]

(***************************************************************************)
(* Properties of the thorchain Provider.CheckStatus                        *)
(***************************************************************************)

\* C26: without a lookup error the thorchain CheckStatus answers
\* "completed" exactly when the outbound-signed stage is present and
\* completed, or that stage is absent and the swap-finalised stage is
\* present and completed; in every other case it answers "pending".
C26_CompletedByStages ==
    (ps.phase = "returned" /\ ps.in.provider = "thorchain" /\ ~ps.in.venue.err) =>
        LET st == ps.in.venue.stages
            done == \/ st.OutboundSigned = "done"
                    \/ st.OutboundSigned = "nil" /\ st.SwapFinalised = "done"
        IN /\ ~ps.out.err
           /\ ps.out.status = IF done THEN "completed" ELSE "pending"

\* the swap is finalised but the outbound stage is present and not completed: pending
C26_Witness ==
    /\ ps.phase = "returned" /\ ps.in.provider = "thorchain" /\ ~ps.in.venue.err
    /\ ps.in.venue.stages = [OutboundSigned |-> "open", SwapFinalised |-> "done"]
    /\ ps.out.status = "pending"

(***************************************************************************)
(* Properties of Manager.noQuotesError                                     *)
(***************************************************************************)

\* the chains whose balance could be read in the last call
C27_Read ==
    {c \in MgrRpcChains :
        c \in nq.in.rpcClients /\ c \in nq.in.usdcContracts /\ ~nq.in.bal[c].err}

\* C27: with no quote, the error is the insufficient-balance error, listing
\* the balances read, exactly when at least one chain's balance could be
\* read and every balance read is below usdAmount * 10^6; otherwise it is
\* the generic no-quotes error.
C27_InsufficientIffAllLow ==
    nq.phase = "returned" =>
        LET low == /\ C27_Read # {}
                   /\ \A c \in C27_Read : nq.in.bal[c].val < nq.in.usd * UsdcUnit
        IN /\ nq.out.kind = IF low THEN "insufficient" ELSE "noquotes"
           /\ low => nq.out.lines = {[chain |-> c, bal |-> nq.in.bal[c].val] : c \in C27_Read}

\* one balance could not be read, the other is one unit short: insufficient balance
C27_Witness ==
    /\ nq.phase = "returned" /\ nq.out.kind = "insufficient"
    /\ nq.in.rpcClients = MgrRpcChains /\ nq.in.usdcContracts = MgrRpcChains
    /\ nq.in.usd = 5
    /\ nq.in.bal["avalanche"].err
    /\ nq.in.bal["base"] = [err |-> FALSE, val |-> 4999999]
    /\ nq.out.lines = {[chain |-> "base", bal |-> 4999999]}

(***************************************************************************)
(* Properties of parseToBigInt                                             *)
(***************************************************************************)

\* the value of a string of digits, most significant digit first
RECURSIVE C28_Value(_, _)
C28_Value(digits, k) ==
    IF k > Len(digits) THEN 0
    ELSE DigitVal(digits[k]) * Pow10(Len(digits) - k) + C28_Value(digits, k + 1)

\* the integer the claim names for a decimal string: the integer part times
\* 10^8 plus the first 8 fractional digits, each at its decimal place
C28_Expected(s) ==
    LET dot == Index(s, ".")
        int == IF dot = 0 THEN s ELSE SubSeq(s, 1, dot - 1)
        frac == IF dot = 0 THEN <<>> ELSE SubSeq(s, dot + 1, Len(s))
        kept == {k \in 1..Len(frac) : k <= 8}
        place(k) == DigitVal(frac[k]) * Pow10(8 - k)
        fracSum[n \in 0..8] == IF n = 0 THEN 0
                               ELSE fracSum[n - 1] + (IF n \in kept THEN place(n) ELSE 0)
    IN C28_Value(int, 1) * 100000000 + fracSum[8]

\* C28: parseToBigInt returns the integer part followed by the first 8
\* fractional digits, padded with zeros to 8 digits and never rounded; a
\* string without a point gives its value times 10^8; "0.00123456" gives
\* 123456 and "5" gives 500000000.
C28_EightDigitsTruncated ==
    /\ pb.phase = "returned" => pb.val = C28_Expected(pb.s)
    /\ (pb.phase = "returned" /\ pb.s = <<"0", ".", "0", "0", "1", "2", "3", "4", "5", "6">>) =>
          pb.val = 123456
    /\ (pb.phase = "returned" /\ pb.s = <<"5">>) => pb.val = 500000000

\* 1.999999999 has a ninth fractional digit 9 and gives 199999999
C28_Witness ==
    /\ pb.phase = "returned"
    /\ pb.s = <<"1", ".", "9", "9", "9", "9", "9", "9", "9", "9", "9">>
    /\ pb.val = 199999999

(***************************************************************************)
(* Properties of simpleswapMatcher                                         *)
(***************************************************************************)

\* what every match call has seen: finished indices, and when it looked at
\* both, two indices built from the same download
C29_ReadersConsistent ==
    \A m \in Matchers :
        /\ sm.seenContract[m] # NoIndex => sm.seenContract[m].filled
        /\ sm.seenSymbol[m] # NoIndex => sm.seenSymbol[m].filled
        /\ (sm.seenContract[m] # NoIndex /\ sm.seenSymbol[m] # NoIndex) =>
              sm.seenContract[m].gen = sm.seenSymbol[m].gen

\* a refresh that returns after a failed download, or at once for want of
\* a client, has changed no index
C29_FailedRefreshKeeps ==
    /\ \A r \in Refreshers :
           (sm.rpc[r] = "fetch" /\ sm'.rpc[r] = "idle") =>
               /\ sm'.rerr[r]
               /\ sm'.byContract = sm.byContract
               /\ sm'.bySymbol = sm.bySymbol
    /\ (sm'.nilReturns # sm.nilReturns) =>
           /\ sm'.byContract = sm.byContract
           /\ sm'.bySymbol = sm.bySymbol
           /\ sm'.downloads = sm.downloads

\* C29: a match running next to refreshes sees both indices from one and
\* the same download, each of them completely built, never one old and one
\* new index; a refresh whose download fails leaves both indices as they were.
C29_AtomicIndexSwap == []C29_ReadersConsistent /\ [][C29_FailedRefreshKeeps]_vars

\* a match has read both indices of the first download while a refresh
\* holding the second download waits for the lock
C29_Witness ==
    /\ sm.seenContract["m1"] = BuiltIndex(1) /\ sm.seenSymbol["m1"] = BuiltIndex(1)
    /\ "m1" \in sm.readers
    /\ sm.rpc["r2"] = "built" /\ sm.local["r2"] = BuiltIndex(2)

(***************************************************************************)
(* Properties of tracker.Tracker: gas refills                              *)
(***************************************************************************)

\* C30: a gas refill's stored status is written at most once, and only to
\* the status the venue reported when that was fulfilled, expired or
\* cancelled; after any other answer or an error the row is still open; a
\* row that is no longer open was not asked about again.
C30_OpenUntilTerminal ==
    \A id \in RefillIds :
        /\ gr.rows[id] \in {"none", "open"} => gr.writes[id] = 0 /\ gr.notes[id] = 0
        /\ gr.notes[id] <= 1
        /\ gr.rows[id] \notin {"none", "open"} =>
              /\ gr.rows[id] \in {"fulfilled", "expired", "cancelled"}
              /\ gr.last[id] = gr.rows[id]
              /\ gr.writes[id] = 1
              /\ gr.asks[id] = gr.closedAt[id]
              /\ id \notin {gr.pending[k] : k \in 1..Len(gr.pending)}
        /\ gr.last[id] \notin {"fulfilled", "expired", "cancelled"} =>
              gr.rows[id] \in {"none", "open"}

\* order 1 expired at the first poll and was left alone by two more polls,
\* which asked about order 2 and left it open
C30_Witness ==
    /\ gr.polls = 3 /\ gr.pc = "idle"
    /\ gr.rows[1] = "expired" /\ gr.asks[1] = 1
    /\ gr.rows[2] = "open" /\ gr.asks[2] = 3 /\ gr.last[2] = "presignaturePending"

(***************************************************************************)
(* Properties of cowswap.Client.RefillGasIfNeeded                          *)
(***************************************************************************)
C31_Kinds == {cw.calls[i].kind : i \in 1..Len(cw.calls)}

C31_Quotes == {cw.calls[i].appData : i \in {j \in 1..Len(cw.calls) : cw.calls[j].kind = "quote"}}

\* C31: a quote request carries the permit pre-hook exactly when the vault
\* relayer's allowance is below the amount to sell; with a sufficient
\* allowance it carries the default application data and no permit is signed.
C31_PermitIffAllowanceLow ==
    (cw.phase = "returned" /\ "quote" \in C31_Kinds) =>
        /\ (PermitAppData \in C31_Quotes) <=> (cw.in.allowance < cw.in.refillUSDC)
        /\ (cw.in.allowance >= cw.in.refillUSDC) =>
               /\ C31_Quotes = {defaultAppDataJSON}
               /\ "permit" \notin C31_Kinds
               /\ "nonce" \notin C31_Kinds
        /\ (cw.in.allowance < cw.in.refillUSDC) =>
               /\ C31_Quotes = {PermitAppData}
               /\ "permit" \in C31_Kinds

C31_Witness ==
    /\ cw.phase = "returned"
    /\ cw.ret.kind = "result"
    /\ cw.in.allowance = cw.in.refillUSDC
    /\ C31_Quotes = {defaultAppDataJSON}

C31_WitnessPermit ==
    /\ cw.phase = "returned"
    /\ cw.ret.kind = "result"
    /\ cw.in.allowance < cw.in.refillUSDC
    /\ C31_Quotes = {PermitAppData}

C32_Kinds == {cw.calls[i].kind : i \in 1..Len(cw.calls)}

C32_Conditions ==
    /\ cw.in.chain \in SupportedChains
    /\ cw.in.nativeBalance < cw.in.minNativeWei
    /\ cw.in.usdcBalance >= cw.in.refillUSDC

\* C32: a quote is requested and an order submitted only for a supported
\* chain with native balance strictly below the threshold and USDC balance at
\* least the refill amount; otherwise the call returns (nil, nil) having made
\* no network call, no signature and no order.
C32_RefillOnlyWhenNeeded ==
    cw.phase = "returned" =>
        /\ (C32_Kinds \cap {"quote", "submit"} # {}) => C32_Conditions
        /\ ~C32_Conditions => (cw.ret = CowNil /\ cw.calls = <<>>)

C32_Witness ==
    /\ cw.phase = "returned"
    /\ cw.in.chain \in SupportedChains
    /\ cw.in.nativeBalance < cw.in.minNativeWei
    /\ cw.in.usdcBalance < cw.in.refillUSDC
    /\ cw.ret = CowNil
    /\ cw.calls = <<>>

C32_WitnessSubmitted ==
    /\ cw.phase = "returned"
    /\ "submit" \in C32_Kinds
    /\ cw.ret.kind = "result"

(***************************************************************************)
(* Properties of bot.Bot.walletIndex                                       *)
(***************************************************************************)
C33_SameEntity(a, b) == a.type = b.type /\ a.tgId = b.tgId

\* C33: in multi mode an entity (a user or a chat) always gets the same
\* wallet index and two different entities never get the same one, even a
\* user and a chat with equal row ids; in single mode the index is always 0.
C33_IndexPerEntity ==
    /\ (wa.mode = ModeMulti) =>
           \A a, b \in wa.given : C33_SameEntity(a, b) <=> (a.index = b.index)
    /\ (wa.mode = ModeMulti) =>
           \A a \in wa.given :
               /\ a.index \in 1..Len(wa.assignments)
               /\ wa.assignments[a.index].type = a.type
               /\ wa.assignments[a.index].id =
                      RowId(IF a.type = "user" THEN wa.users ELSE wa.chats, a.tgId)
    /\ (wa.mode = ModeSingle) => \A a \in wa.given : a.index = 0

C33_Witness ==
    /\ wa.mode = ModeMulti
    /\ \E a, b \in wa.given :
           /\ a.type = "user" /\ b.type = "chat"
           /\ RowId(wa.users, a.tgId) = RowId(wa.chats, b.tgId)
           /\ a.index # b.index
    /\ Cardinality(wa.given) = 2 * MaxEntities

C33_WitnessSingle ==
    /\ wa.mode = ModeSingle
    /\ Cardinality(wa.given) = 2 * MaxEntities

(***************************************************************************)
(* Properties of bot.Bot.Run                                               *)
(***************************************************************************)
C34_Handled == au.update.hasMessage /\ au.did = "handleMessage"

\* C34: a group message never reaches a command handler in single mode and
\* always does in multi mode; a private message reaches one only if the
\* sender is the admin or is on the whitelist.
C34_GroupsAndWhitelist ==
    (au.started /\ au.update.hasMessage) =>
        /\ (~au.update.private /\ au.config.Mode = ModeSingle) => ~C34_Handled
        /\ (~au.update.private /\ au.config.Mode = ModeMulti) => C34_Handled
        /\ (au.update.private /\ C34_Handled) =>
               \/ au.update.from = au.config.AdminUserID
               \/ au.update.from \in au.config.WhitelistedUsers

\* C34 as the code has it: groups by mode as above; a private message
\* reaches a command handler only if the sender is the admin, is on the
\* whitelist, or the mode is multi, where every sender is authorized.
C34_GroupsByMode ==
    (au.started /\ au.update.hasMessage) =>
        /\ (~au.update.private /\ au.config.Mode = ModeSingle) => ~C34_Handled
        /\ (~au.update.private /\ au.config.Mode = ModeMulti) => C34_Handled
        /\ (au.update.private /\ C34_Handled) =>
               \/ au.update.from = au.config.AdminUserID
               \/ au.update.from \in au.config.WhitelistedUsers
               \/ au.config.Mode = ModeMulti

C34_Witness ==
    /\ au.started
    /\ au.config.Mode = ModeSingle
    /\ au.update.hasMessage /\ au.update.private
    /\ au.update.from # au.config.AdminUserID
    /\ au.update.from \in au.config.WhitelistedUsers
    /\ au.did = "handleMessage"

C34_WitnessMulti ==
    /\ au.started
    /\ au.config.Mode = ModeMulti
    /\ au.update.hasMessage /\ au.update.private
    /\ au.update.from # au.config.AdminUserID
    /\ au.update.from \notin au.config.WhitelistedUsers
    /\ au.did = "handleMessage"

(***************************************************************************)
(* Properties of the tracker's notifications                               *)
(***************************************************************************)
C35_AtMostOne == \A id \in TopupIds : tnotes[id] <= 1

C35_Step ==
    /\ \A id \in TopupIds :
           /\ (tnotes'[id] # tnotes[id]) =>
                  /\ tnotes'[id] = tnotes[id] + 1
                  /\ tlast.id = id
                  /\ tlast.answer \in {"completed", "failed"}
                  /\ ~tlast.updateErr
                  /\ topups[id] = tlast.answer
                  /\ topups'[id] = topups[id]
           /\ (topups[id] = "pending" /\ topups'[id] # "pending") =>
                  /\ tlast'.id = id
                  /\ ~tlast'.updateErr
                  /\ topups'[id] = tlast'.answer
    /\ (/\ tpc \in {"polling", "updating"}
        /\ tpc' \in {"idle", "polling"}
        /\ tpending' # tpending) =>
           /\ tlast'.answer \in {"err", "pending"} \/ tlast'.updateErr
           /\ tnotes'[tlast'.id] = tnotes[tlast'.id]
           /\ topups'[tlast'.id] = "pending"
    /\ (tpc = "polling" /\ tpc' = "updating") => tlast'.answer \in {"completed", "failed"}

\* C35: over all polls at most one completed/failed notification is sent for
\* a topup, and only in the iteration that has just stored that status; an
\* iteration whose status check errs or answers pending, or whose update
\* fails, ends without a notification and leaves the stored status pending.
C35_OneNotificationAfterStore == []C35_AtMostOne /\ [][C35_Step]_vars

C35_Witness ==
    /\ tnotes[1] = 1
    /\ tasks[1] = MaxPolls
    /\ topups[1] \in {"completed", "failed"}
    /\ tlast = [id |-> 1, answer |-> topups[1], updateErr |-> FALSE]

(***************************************************************************)
(* Properties of bot.Bot.handleTopup                                       *)
(***************************************************************************)
C36_RowOfLast ==
    \E i \in 1..Len(ht.topupRows) :
        ht.topupRows[i] = [QuoteID |-> ht.last.quoteID, Provider |-> ht.last.in.provider,
                           TxHash |-> ht.last.in.TxHash, Status |-> "pending",
                           ExternalID |-> ht.last.in.ExternalID]

C36_ExecuteOnceAfterQuote ==
    /\ ht.last.executes <= 1
    /\ (ht.last.executes = 1) =>
           /\ ht.last.cmd = "topup"
           /\ ht.last.quoteID = Len(ht.quoteRows)
           /\ ht.last.quoteID >= 1
           /\ ht.quoteRows[ht.last.quoteID] = ht.last.in.provider

\* C36: after a /topup command whose ExecuteSwap call succeeded there is a
\* pending topup row with the provider, transaction hash and external id of
\* that execution, once the command has ended; ExecuteSwap is called at most
\* once per command and only after the quote was stored.
C36_ExecutedIsTracked ==
    /\ (ht.pc = "idle" /\ ht.last.executed) => C36_RowOfLast
    /\ C36_ExecuteOnceAfterQuote

C36_FailingInput ==
    /\ ht.pc = "idle"
    /\ ht.last.cmd = "topup"
    /\ ht.last.executed
    /\ ht.last.in.fail = "InsertTopupWithShortID"
    /\ ht.topupRows = <<>>
    /\ ht.last.reply = "Topup"

(***************************************************************************)
(* Properties of the running tracker                                       *)
(***************************************************************************)
\* a step in which CheckStatus returns for topup id
C37_Checks(id) ==
    /\ lv.pc = "polling"
    /\ lv.pending # <<>>
    /\ Head(lv.pending) = id
    /\ (lv'.pc = "updating" \/ lv'.pending # lv.pending)

\* a step in which UpdateTopupStatus returns for topup id
C37_Updates(id) ==
    /\ lv.pc = "updating"
    /\ Head(lv.pending) = id
    /\ lv'.pc # "updating"

\* every status check of topup id returns terminal status s without error
C37_CheckReturns(id, s) ==
    C37_Checks(id) => lv'.last = [status |-> s, err |-> FALSE]

\* every status update of topup id succeeds
C37_UpdateSucceeds(id) ==
    C37_Updates(id) => lv'.pc = "notifying"

\* C37: if from some point on topup id is pending or already stored as s,
\* every status check of it returns the terminal status s without error and
\* every status update of it succeeds, then its stored status eventually is
\* s: for every provider and every external id, the empty one included.
C37_TerminalReturnIsStored ==
    \A id \in LiveIds : \A s \in {"completed", "failed"} :
        (/\ <>[](lv.rows[id].status \in {"pending", s})
         /\ <>[][C37_CheckReturns(id, s)]_vars
         /\ <>[][C37_UpdateSucceeds(id)]_vars)
            => <>(lv.rows[id].status = s)

C37_Witness ==
    /\ lv.rows[1].provider = "thorchain"
    /\ lv.rows[1].externalID = ""
    /\ lv.rows[1].status = "completed"
    /\ lv.last = [status |-> "completed", err |-> FALSE]

C37_WitnessFailed ==
    /\ lv.rows[1].provider = "nearintents"
    /\ lv.rows[1].externalID # ""
    /\ lv.rows[1].status = "failed"
    /\ lv.last = [status |-> "failed", err |-> FALSE]

(***************************************************************************)
(* Properties of bestMatch for entries of rank 0                           *)
(***************************************************************************)
C38_Matching == {i \in 1..Len(bm.coins) : ToLower(bm.coins[i].Symbol) = ToLower(bm.symbol)}

C38_Positive == {i \in C38_Matching : bm.coins[i].Rank.set /\ bm.coins[i].Rank.val > 0}

\* C38: an entry of market-cap rank 0 counts as an entry without a rank:
\* bestMatch returns it only if no entry matching the symbol has a positive
\* rank, in whatever order the catalog lists the entries.
C38_RankZeroIsNoRank ==
    (bm.phase = "returned" /\ bm.best # 0) =>
        ((bm.coins[bm.best].Rank.set /\ bm.coins[bm.best].Rank.val = 0) => C38_Positive = {})

\* the order in which the rule does hold: the entry of rank 0 comes after the ranked one
C38_RankedFirst ==
    /\ bm.phase = "returned"
    /\ Len(bm.coins) = 2
    /\ C38_Matching = {1, 2}
    /\ bm.coins[1].Rank = Rank(5)
    /\ bm.coins[2].Rank = Rank(0)
    /\ bm.best = 1

C38_FailingInput ==
    /\ bm.phase = "returned"
    /\ Len(bm.coins) = 2
    /\ C38_Matching = {1, 2}
    /\ bm.coins[1].Rank = Rank(0)
    /\ bm.coins[2].Rank = Rank(5)
    /\ bm.best = 1

(***************************************************************************)
(* Properties of the admin session check                                   *)
(***************************************************************************)
\* C39: an admin handler runs only for a request whose admin_session cookie
\* is a token an earlier admin login with the admin password issued; a
\* dashboard token, an unknown token or no cookie never gets there, however
\* logins and requests interleave.
C39_AdminOnlyWithAdminToken ==
    /\ (sv.last.kind = "admin" /\ sv.last.ran) =>
           /\ sv.last.admin_session # NoCookie
           /\ sv.last.admin_session \in sv.adminIssued
    /\ (sv.last.kind = "admin" /\ sv.last.admin_session \in
            (sv.dashIssued \cup {NoCookie, UnknownToken}) \ sv.adminIssued) => ~sv.last.ran
    /\ sv.adminIssued \cap sv.dashIssued = {}
    /\ (sv.last.kind = "adminLogin" /\ sv.last.ran) => sv.last.admin_session \in sv.adminIssued

C39_Witness ==
    /\ sv.last.kind = "admin"
    /\ sv.last.admin_session \in sv.dashIssued
    /\ sv.last.dash_session = sv.last.admin_session
    /\ ~sv.last.ran
    /\ sv.adminIssued # {}

C39_WitnessRan ==
    /\ sv.last.kind = "admin"
    /\ sv.last.ran
    /\ sv.dashIssued # {}

====
